---- MODULE Spec2Model ----
(***************************************************************************)
(* Order-management system (Samran04/order-management-system).             *)
(*                                                                         *)
(* Two programs live in the repository and both are modelled here:         *)
(*   - the Next.js REST API (routes under app/api, lib/auth.ts) over a     *)
(*     relational store of users, orders and notifications;                *)
(*   - the browser-local React application (App, SalesView, Login) whose   *)
(*     state is component state and localStorage.                          *)
(* Every route handler and every UI handler is one action.                 *)
(***************************************************************************)
EXTENDS Integers, Sequences, FiniteSets, TLC

VARIABLES
    users,          \* server table User: set of rows
    orders,         \* server table Order: set of rows
    nextOrderId,    \* next fresh Order id (ids are never reused)
    notifications,  \* server table Notification: set of rows
    nextNotifId,    \* next fresh Notification id
    req,            \* the request handled last
    resp,           \* the response it got
    appOrders,      \* App: useState<Order[]>, the browser-local order list
    items,          \* SalesView: useState<ItemForm[]>
    activeTab,      \* SalesView: useState(0), a 0-based index into items
    headerData,     \* SalesView: useState headerData
    editingOrderNumber, \* SalesView: useState<string | null>, <<>> for null
    usersDb,        \* Login: localStorage 'us81_users_db'
    isRegister,     \* Login: useState(false)
    message,        \* Login: useState message
    timers,         \* Login: pending setTimeout callbacks
    currentUser,    \* App: useState<User | null>
    appNotifications, \* App: useState<AppNotification[]>, newest first
    activeView,     \* App: useState<ViewType>('Dashboard'), the one view that is mounted
    productionSelected, \* ProductionView: useState<Order | null> selectedOrder
    deliverySelected,   \* DeliveryView: useState<Order | null> selectedOrder
    issueData,      \* DeliveryView: useState<PostDeliveryIssue>
    pending         \* route handlers suspended between their lookup and their insert

vars == <<users, orders, nextOrderId, notifications, nextNotifId, req, resp,
          appOrders, items, activeTab, headerData, editingOrderNumber,
          usersDb, isRegister, message, timers, currentUser, appNotifications,
          activeView, productionSelected, deliverySelected, issueData, pending>>

serverVars == <<users, orders, nextOrderId, notifications, nextNotifId, req, resp>>
formVars == <<appOrders, items, activeTab, headerData, editingOrderNumber>>
loginVars == <<usersDb, isRegister, message, timers, currentUser, appNotifications>>
viewVars == <<activeView, productionSelected, deliverySelected, issueData>>

----------------------------------------------------------------------------
(* Bounds of the model *)

MaxUsers == 2
MaxOrderIds == 2
MaxNotifIds == 2
MaxItems == 2
MaxSizeRows == 2
MaxPreset == 1
MaxLocalUsers == 2
MaxAppNotifs == 2
MaxLogs == 2
MaxPending == 2
MaxAppOrders == 3

----------------------------------------------------------------------------
(* Values *)

\* JavaScript null / undefined; every nullable value of the model is a record
Null == [kind |-> "null"]

Max(a, b) == IF a >= b THEN a ELSE b

\* body.field !== undefined
Has(body, field) == field \in DOMAIN body

\* the fields of a request body that the record of the last request keeps
BodyFields(body, keys) == [f \in DOMAIN body \cap keys |-> body[f]]

RECURSIVE SumQuantities(_)
\* sizes.reduce((acc, curr) => acc + (Number(curr.quantity) || 0), 0)
SumQuantities(sizes) ==
    IF sizes = <<>> THEN 0
    ELSE SumQuantities(SubSeq(sizes, 1, Len(sizes) - 1)) + sizes[Len(sizes)].quantity

----------------------------------------------------------------------------
(* lib/auth.ts *)

JWT_SECRET == "JWT_SECRET"

\* bcrypt.hash(password, SALT_ROUNDS): a fresh salt, and a digest of salt and password
hashPassword(password, salt) ==
    [salt |-> salt, digest |-> <<salt, password>>]

\* bcrypt.compare with the salt ignored: the digest is recomputed with salt 1
verifyPasswordFixedSalt(password, hash) ==
    hash.digest = <<1, password>>

\* bcrypt.compare(password, hash): recomputes the digest with the hash's own salt
verifyPassword(password, hash) ==
    hash.digest = <<hash.salt, password>>

\* jwt.sign(payload, JWT_SECRET, {expiresIn}): not expired when issued
generateToken(payload) ==
    [kind |-> "jwt", payload |-> payload, sig |-> JWT_SECRET, expired |-> FALSE]

\* a faulty variant: the signature is not checked
verifyTokenNoSignature(token) ==
    IF token.kind = "jwt" /\ ~token.expired THEN token.payload ELSE Null

\* jwt.verify inside try/catch: any failure gives null
verifyToken(token) ==
    IF token.kind = "jwt" /\ token.sig = JWT_SECRET /\ ~token.expired
    THEN token.payload
    ELSE Null

extractTokenFromHeader(authHeader) ==
    IF authHeader = Null THEN Null
    ELSE IF authHeader.scheme # "Bearer " THEN Null
    ELSE authHeader.rest

authenticateRequest(authHeader) ==
    LET token == extractTokenFromHeader(authHeader)
    IN  IF token = Null \/ token.kind = "empty" THEN Null ELSE verifyToken(token)

----------------------------------------------------------------------------
(* HTTP values *)

Response(status, body) == [status |-> status, body |-> body]

Unauthorized == Response(401, [error |-> "Unauthorized"])
InternalServerError == Response(500, [error |-> "Internal server error"])

Request(op, header, id, body) == [op |-> op, header |-> header, id |-> id, body |-> body]

NoRequest == Request("none", Null, 0, Null)
NoResponse == Response(0, Null)

\* the Authorization headers a client can send: none, another scheme, an empty
\* token, a string that is no JWT, a JWT signed with another key, an expired
\* JWT, and a JWT this server issued for one of its users
TokenPayload(u) == [userId |-> u.id, email |-> u.email, role |-> u.role]

BearerHeader(token) == [kind |-> "header", scheme |-> "Bearer ", rest |-> token]

ValidHeaders == { BearerHeader(generateToken(TokenPayload(u))) : u \in users }

ForgedPayload == [userId |-> 1, email |-> "a@x.io", role |-> "Admin"]

InvalidHeaders ==
    { Null,
      [kind |-> "header", scheme |-> "Basic ", rest |-> generateToken(ForgedPayload)],
      BearerHeader([kind |-> "empty"]),
      BearerHeader([kind |-> "garbage"]),
      BearerHeader([kind |-> "jwt", payload |-> ForgedPayload, sig |-> "other", expired |-> FALSE]),
      BearerHeader([kind |-> "jwt", payload |-> ForgedPayload, sig |-> JWT_SECRET, expired |-> TRUE]) }

Headers == ValidHeaders \cup InvalidHeaders

----------------------------------------------------------------------------
(* POST /api/auth/register, POST /api/auth/login *)

UserRoles == {"Admin", "Sales", "Production"}

\* string lengths of the texts the model uses (z.string().min(n))
StrLen(s) ==
    CASE s = "" -> 0
      [] s = "B" -> 1
      [] s = "Al" -> 2
      [] s = "Bo" -> 2
      [] s = "short" -> 5
      [] s = "secret1" -> 7
      [] s = "secret2" -> 7
      [] OTHER -> 8

\* z.string().email(): the model's well-formed addresses
IsEmail(s) == s \in {"a@x.io", "b@x.io", "c@x.io"}

\* registerSchema.safeParse(body).success
registerSchemaOk(body) ==
    /\ IsEmail(body.email)
    /\ StrLen(body.password) >= 6
    /\ StrLen(body.name) >= 2
    /\ body.role \in UserRoles

\* loginSchema.safeParse(body).success
loginSchemaOk(body) ==
    /\ IsEmail(body.email)
    /\ StrLen(body.password) >= 1

\* the public fields the auth and user routes return
\* a faulty variant: the row is returned as stored
PublicUserWithHash(u) == u

\* the user object of a response: the fields picked from the row, by select or by hand
PublicUser(u) ==
    [id |-> u.id, email |-> u.email, name |-> u.name, role |-> u.role,
     organization |-> u.organization]

\* an optional text is <<>> (null, undefined) or <<text>>
Organization(body) == IF Has(body, "organization") THEN <<body.organization>> ELSE <<>>

\* prisma.user.findUnique({ where: { email } })
FindUserByEmail(email) ==
    IF \E u \in users : u.email = email
    THEN CHOOSE u \in users : u.email = email
    ELSE Null

\* a faulty variant: registration does not look for the email first
RegisterResultNoCheck(body, salt) ==
    IF ~registerSchemaOk(body)
    THEN [users |-> users, resp |-> Response(400, [error |-> "Invalid input"])]
    ELSE LET user == [id |-> Cardinality(users) + 1, email |-> body.email,
                      passwordHash |-> hashPassword(body.password, salt),
                      name |-> body.name, role |-> body.role,
                      organization |-> Organization(body)]
         IN  [users |-> users \cup {user},
              resp |-> Response(201, [user |-> PublicUser(user),
                                      token |-> generateToken(TokenPayload(user))])]

\* the handler's outcome: the user table after it and the response
RegisterResult(body, salt) ==
    IF ~registerSchemaOk(body)
    THEN [users |-> users, resp |-> Response(400, [error |-> "Invalid input"])]
    ELSE IF FindUserByEmail(body.email) # Null
    THEN [users |-> users, resp |-> Response(400, [error |-> "Email already registered"])]
    ELSE LET user == [id |-> Cardinality(users) + 1, email |-> body.email,
                      passwordHash |-> hashPassword(body.password, salt),
                      name |-> body.name, role |-> body.role,
                      organization |-> Organization(body)]
         IN  [users |-> users \cup {user},
              resp |-> Response(201, [user |-> PublicUser(user),
                                      token |-> generateToken(TokenPayload(user))])]

Register(body, salt) ==
    LET r == RegisterResult(body, salt)
    IN  /\ Cardinality(r.users) <= MaxUsers
        /\ users' = r.users
        /\ resp' = r.resp
        /\ req' = Request("POST /auth/register", Null, 0, body)
        /\ UNCHANGED <<orders, nextOrderId, notifications, nextNotifId, formVars, loginVars, viewVars, pending>>

\* a faulty variant: an unknown email is answered 404
LoginResultNotFound(body) ==
    IF ~loginSchemaOk(body)
    THEN Response(400, [error |-> "Invalid input"])
    ELSE LET user == FindUserByEmail(body.email)
         IN  IF user = Null
             THEN Response(404, [error |-> "User not found"])
             ELSE IF ~verifyPassword(body.password, user.passwordHash)
             THEN Response(401, [error |-> "Invalid credentials"])
             ELSE Response(200, [user |-> PublicUser(user),
                                 token |-> generateToken(TokenPayload(user))])

LoginResult(body) ==
    IF ~loginSchemaOk(body)
    THEN Response(400, [error |-> "Invalid input"])
    ELSE LET user == FindUserByEmail(body.email)
         IN  IF user = Null
             THEN Response(401, [error |-> "Invalid credentials"])
             ELSE IF ~verifyPassword(body.password, user.passwordHash)
             THEN Response(401, [error |-> "Invalid credentials"])
             ELSE Response(200, [user |-> PublicUser(user),
                                 token |-> generateToken(TokenPayload(user))])

Login(body) ==
    /\ resp' = LoginResult(body)
    /\ req' = Request("POST /auth/login", Null, 0, body)
    /\ UNCHANGED <<users, orders, nextOrderId, notifications, nextNotifId, formVars, loginVars, viewVars, pending>>

----------------------------------------------------------------------------
(* /api/orders, /api/orders/[id] *)

\* new Date(text): a Date, or Invalid Date for a text that is no date (and for
\* undefined, when the body has no such field)
InvalidDate == [kind |-> "Invalid Date"]

NewDate(text) ==
    IF text = "2026-02-17" THEN [kind |-> "Date", iso |-> "2026-02-17T00:00:00.000Z"]
    ELSE IF text = "2026-03-01" THEN [kind |-> "Date", iso |-> "2026-03-01T00:00:00.000Z"]
    ELSE InvalidDate

\* the three date columns of an order
DateFields == {"date", "startDate", "deliveryDate"}

\* new Date(body.field): the field's text parsed, Invalid Date when it is absent
BodyDate(body, field) == NewDate(IF Has(body, field) THEN body[field] ELSE "undefined")

\* prisma.order.findUnique({ where: { orderNumber } })
FindOrderByNumber(orderNumber) ==
    IF \E o \in orders : o.orderNumber = orderNumber
    THEN CHOOSE o \in orders : o.orderNumber = orderNumber
    ELSE Null

\* prisma.order.findUnique({ where: { id } })
FindOrderById(id) ==
    IF \E o \in orders : o.id = id
    THEN CHOOSE o \in orders : o.id = id
    ELSE Null

\* include salesPerson, then the flattening each order route does
TransformOrder(o) ==
    LET salesPerson == CHOOSE u \in users : u.id = o.salesPersonId
    IN  [id |-> o.id, orderNumber |-> o.orderNumber, sizes |-> o.sizes,
         totalQuantity |-> o.totalQuantity, status |-> o.status,
         date |-> o.date.iso, startDate |-> o.startDate.iso,
         deliveryDate |-> o.deliveryDate.iso, postDelivery |-> o.postDelivery,
         salesPerson |-> salesPerson.name, salesPersonId |-> salesPerson.id]

\* a faulty variant: a salesPersonId in the body wins over the caller's
OrderDataFromBody(body, user) ==
    [orderNumber |-> body.orderNumber, sizes |-> body.sizes,
     totalQuantity |-> body.totalQuantity, status |-> body.status,
     date |-> BodyDate(body, "date"), startDate |-> BodyDate(body, "startDate"),
     deliveryDate |-> BodyDate(body, "deliveryDate"),
     salesPersonId |-> IF Has(body, "salesPersonId")
                          /\ \E u \in users : u.id = body.salesPersonId
                       THEN body.salesPersonId
                       ELSE user.userId]

\* const orderData = { ...body, date: new Date(body.date), ..., salesPersonId: user.userId }:
\* the caller's id is written after the spread, over any salesPersonId of the body
OrderData(body, user) ==
    [orderNumber |-> body.orderNumber, sizes |-> body.sizes,
     totalQuantity |-> body.totalQuantity, status |-> body.status,
     date |-> BodyDate(body, "date"), startDate |-> BodyDate(body, "startDate"),
     deliveryDate |-> BodyDate(body, "deliveryDate"),
     salesPersonId |-> user.userId]

\* a faulty variant: the duplicate check is skipped
CreateOrderResultNoCheck(header, body) ==
    LET user == authenticateRequest(header)
    IN  IF user = Null
        THEN [orders |-> orders, resp |-> Unauthorized]
        ELSE LET orderData == OrderData(body, user)
                 order == [id |-> nextOrderId, postDelivery |-> Null] @@ orderData
             IN  IF \E f \in DateFields : orderData[f] = InvalidDate
                 THEN [orders |-> orders, resp |-> InternalServerError]
                 ELSE [orders |-> orders \cup {order},
                       resp |-> Response(201, TransformOrder(order))]

\* POST /api/orders: the order table after the handler and the response
CreateOrderResult(header, body) ==
    LET user == authenticateRequest(header)
    IN  IF user = Null
        THEN [orders |-> orders, resp |-> Unauthorized]
        ELSE LET orderData == OrderData(body, user)
                 order == [id |-> nextOrderId, postDelivery |-> Null] @@ orderData
             IN  IF FindOrderByNumber(orderData.orderNumber) # Null
                 THEN [orders |-> orders,
                       resp |-> Response(400, [error |-> "Order number already exists"])]
                 ELSE IF \E f \in DateFields : orderData[f] = InvalidDate
                 THEN [orders |-> orders, resp |-> InternalServerError]
                 ELSE [orders |-> orders \cup {order},
                       resp |-> Response(201, TransformOrder(order))]

CreateOrder(header, body) ==
    LET r == CreateOrderResult(header, body)
    IN  /\ r.orders # orders => nextOrderId <= MaxOrderIds
        /\ orders' = r.orders
        /\ nextOrderId' = IF r.orders # orders THEN nextOrderId + 1 ELSE nextOrderId
        /\ resp' = r.resp
        /\ req' = Request("POST /orders", header, 0,
                           BodyFields(body, {"orderNumber", "salesPersonId", "status"}))
        /\ UNCHANGED <<users, notifications, nextNotifId, formVars, loginVars, viewVars, pending>>

\* GET /api/orders: findMany orderBy createdAt desc; ids grow with creation time
RECURSIVE OrdersNewestFirst(_)
OrdersNewestFirst(rows) ==
    IF rows = {} THEN <<>>
    ELSE LET newest == CHOOSE o \in rows : \A p \in rows : p.id <= o.id
         IN  <<TransformOrder(newest)>> \o OrdersNewestFirst(rows \ {newest})

ListOrders(header) ==
    /\ resp' = IF authenticateRequest(header) = Null THEN Unauthorized
               ELSE Response(200, [list |-> OrdersNewestFirst(orders)])
    /\ req' = Request("GET /orders", header, 0, Null)
    /\ UNCHANGED <<users, orders, nextOrderId, notifications, nextNotifId, formVars, loginVars, viewVars, pending>>

GetOrder(header, id) ==
    /\ resp' = IF authenticateRequest(header) = Null THEN Unauthorized
               ELSE IF FindOrderById(id) = Null
               THEN Response(404, [error |-> "Order not found"])
               ELSE Response(200, TransformOrder(FindOrderById(id)))
    /\ req' = Request("GET /orders/{id}", header, id, Null)
    /\ UNCHANGED <<users, orders, nextOrderId, notifications, nextNotifId, formVars, loginVars, viewVars, pending>>

\* const updateData = { ...body }; if (body.date) updateData.date = new Date(body.date),
\* and the same for startDate and deliveryDate; an empty text is falsy and stays
UpdateData(body) ==
    [f \in DOMAIN body |-> IF f \in DateFields /\ body[f] # "" THEN NewDate(body[f]) ELSE body[f]]

\* a relation field of data must be a nested write ({ create: {...} }); prisma
\* refuses any other value with a validation error
IsNestedWrite(value) == DOMAIN value = {"create"}

\* a faulty variant: the update writes a whole row, a status absent from the
\* data falling back to the first stage
MergeOrderWholeRow(order, data) ==
    [f \in DOMAIN order |->
        IF f \in DOMAIN data THEN (IF f = "postDelivery" THEN data[f].create ELSE data[f])
        ELSE IF f = "status" THEN "Order Received"
        ELSE order[f]]

\* prisma.order.update({ where: { id }, data }): the fields of data overwrite the
\* row's, and a nested create attaches the post-delivery record as it is given
MergeOrder(order, data) ==
    [f \in DOMAIN order |->
        IF f \notin DOMAIN data THEN order[f]
        ELSE IF f = "postDelivery" THEN data[f].create
        ELSE data[f]]

\* PUT /api/orders/[id]: a missing row, an Invalid Date, a second row with the
\* same unique orderNumber and a relation value that is no nested write make
\* prisma throw, which the catch answers with 500; the route validates nothing
UpdateOrderResult(header, id, body) ==
    LET user == authenticateRequest(header)
        old == FindOrderById(id)
        data == UpdateData(body)
    IN  IF user = Null
        THEN [orders |-> orders, resp |-> Unauthorized]
        ELSE IF old = Null
        THEN [orders |-> orders, resp |-> InternalServerError]
        ELSE IF \E f \in DateFields \cap DOMAIN body : body[f] = "" \/ data[f] = InvalidDate
        THEN [orders |-> orders, resp |-> InternalServerError]
        ELSE IF Has(data, "orderNumber")
                /\ \E o \in orders : o.id # id /\ o.orderNumber = data.orderNumber
        THEN [orders |-> orders, resp |-> InternalServerError]
        ELSE IF Has(data, "postDelivery") /\ ~IsNestedWrite(data.postDelivery)
        THEN [orders |-> orders, resp |-> InternalServerError]
        ELSE LET new == MergeOrder(old, data)
             IN  [orders |-> (orders \ {old}) \cup {new},
                  resp |-> Response(200, TransformOrder(new))]

UpdateOrder(header, id, body) ==
    LET r == UpdateOrderResult(header, id, body)
    IN  /\ orders' = r.orders
        /\ resp' = r.resp
        /\ req' = Request("PUT /orders/{id}", header, id, BodyFields(body, {"status", "totalQuantity"} \cup DateFields))
        /\ UNCHANGED <<users, nextOrderId, notifications, nextNotifId, formVars, loginVars, viewVars, pending>>

\* DELETE /api/orders/[id]: prisma.order.delete throws when no row has the id
DeleteOrder(header, id) ==
    LET user == authenticateRequest(header)
        old == FindOrderById(id)
    IN  /\ orders' = IF user # Null /\ old # Null THEN orders \ {old} ELSE orders
        /\ resp' = IF user = Null THEN Unauthorized
                   ELSE IF old = Null THEN InternalServerError
                   ELSE Response(200, [message |-> "Order deleted successfully"])
        /\ req' = Request("DELETE /orders/{id}", header, id, Null)
        /\ UNCHANGED <<users, nextOrderId, notifications, nextNotifId, formVars, loginVars, viewVars, pending>>

----------------------------------------------------------------------------
(* POST /api/auth/register and POST /api/orders, await by await *)

\* a handler awaits its lookup and then its insert; between the two awaits other
\* requests run. The unique index of the column that findUnique looks up makes
\* the insert of a second row with the key throw, which the catch answers 500.

\* POST /api/auth/register up to the lookup: a body that fails there is answered
RegisterLookup(body) ==
    IF ~registerSchemaOk(body) \/ FindUserByEmail(body.email) # Null
    THEN /\ resp' = RegisterResult(body, 1).resp
         /\ req' = Request("POST /auth/register", Null, 0, body)
         /\ UNCHANGED <<users, orders, nextOrderId, notifications, nextNotifId, formVars,
                        loginVars, viewVars, pending>>
    ELSE /\ Cardinality(pending) < MaxPending
         /\ pending' = pending \cup {Request("POST /auth/register", Null, 0, body)}
         /\ UNCHANGED <<serverVars, formVars, loginVars, viewVars>>

\* prisma.user.create of a handler that found no user at its lookup
RegisterInsert(p) ==
    /\ p \in pending
    /\ p.op = "POST /auth/register"
    /\ pending' = pending \ {p}
    /\ req' = p
    /\ IF FindUserByEmail(p.body.email) # Null
       THEN /\ resp' = InternalServerError
            /\ UNCHANGED users
       ELSE LET user == [id |-> Cardinality(users) + 1, email |-> p.body.email,
                         passwordHash |-> hashPassword(p.body.password, 1),
                         name |-> p.body.name, role |-> p.body.role,
                         organization |-> Organization(p.body)]
            IN  /\ Cardinality(users) < MaxUsers
                /\ users' = users \cup {user}
                /\ resp' = Response(201, [user |-> PublicUser(user),
                                          token |-> generateToken(TokenPayload(user))])
    /\ UNCHANGED <<orders, nextOrderId, notifications, nextNotifId, formVars, loginVars,
                   viewVars>>

\* POST /api/orders up to the lookup of the order number
CreateOrderLookup(header, body) ==
    LET user == authenticateRequest(header)
    IN  IF user = Null \/ FindOrderByNumber(body.orderNumber) # Null
        THEN /\ resp' = CreateOrderResult(header, body).resp
             /\ req' = Request("POST /orders", header, 0,
                                BodyFields(body, {"orderNumber", "salesPersonId", "status"}))
             /\ UNCHANGED <<users, orders, nextOrderId, notifications, nextNotifId, formVars,
                            loginVars, viewVars, pending>>
        ELSE /\ Cardinality(pending) < MaxPending
             /\ pending' = pending \cup {Request("POST /orders", header, 0, body)}
             /\ UNCHANGED <<serverVars, formVars, loginVars, viewVars>>

\* prisma.order.create of a handler that found no order at its lookup
CreateOrderInsert(p) ==
    /\ p \in pending
    /\ p.op = "POST /orders"
    /\ pending' = pending \ {p}
    /\ req' = Request("POST /orders", p.header, 0,
                       BodyFields(p.body, {"orderNumber", "salesPersonId", "status"}))
    /\ LET orderData == OrderData(p.body, authenticateRequest(p.header))
           order == [id |-> nextOrderId, postDelivery |-> Null] @@ orderData
       IN  IF \/ FindOrderByNumber(orderData.orderNumber) # Null
              \/ \E f \in DateFields : orderData[f] = InvalidDate
           THEN /\ resp' = InternalServerError
                /\ UNCHANGED <<orders, nextOrderId>>
           ELSE /\ nextOrderId <= MaxOrderIds
                /\ orders' = orders \cup {order}
                /\ nextOrderId' = nextOrderId + 1
                /\ resp' = Response(201, TransformOrder(order))
    /\ UNCHANGED <<users, notifications, nextNotifId, formVars, loginVars, viewVars>>

----------------------------------------------------------------------------
(* /api/users/me, /api/users/[id] *)

\* prisma.user.findUnique({ where: { id } })
FindUserById(id) ==
    IF \E u \in users : u.id = id
    THEN CHOOSE u \in users : u.id = id
    ELSE Null

GetMe(header) ==
    LET userPayload == authenticateRequest(header)
    IN  /\ resp' = IF userPayload = Null THEN Unauthorized
                   ELSE IF FindUserById(userPayload.userId) = Null
                   THEN Response(404, [error |-> "User not found"])
                   ELSE Response(200, PublicUser(FindUserById(userPayload.userId)))
        /\ req' = Request("GET /users/me", header, 0, Null)
        /\ UNCHANGED <<users, orders, nextOrderId, notifications, nextNotifId, formVars, loginVars, viewVars, pending>>

GetUser(header, id) ==
    /\ resp' = IF authenticateRequest(header) = Null THEN Unauthorized
               ELSE IF FindUserById(id) = Null
               THEN Response(404, [error |-> "User not found"])
               ELSE Response(200, PublicUser(FindUserById(id)))
    /\ req' = Request("GET /users/{id}", header, id, Null)
    /\ UNCHANGED <<users, orders, nextOrderId, notifications, nextNotifId, formVars, loginVars, viewVars, pending>>

\* a faulty variant: every field of the body that the row has is written
UpdateUserRowAllFields(u, body) ==
    [f \in DOMAIN u |->
        IF f = "organization" /\ Has(body, f) THEN <<body[f]>>
        ELSE IF f \in {"name", "role", "email"} /\ Has(body, f) THEN body[f]
        ELSE u[f]]

\* data: { ...(name && { name }), ...(organization !== undefined && { organization }) }
UpdateUserRow(u, body) ==
    [u EXCEPT !.name = IF Has(body, "name") /\ body.name # "" THEN body.name ELSE @,
              !.organization = IF Has(body, "organization") THEN <<body.organization>> ELSE @]

\* a faulty variant: only the owner of the profile may update it
UpdateUserResultOwnerOnly(header, id, body) ==
    LET userPayload == authenticateRequest(header)
        old == FindUserById(id)
    IN  IF userPayload = Null
        THEN [users |-> users, resp |-> Unauthorized]
        ELSE IF userPayload.userId # id
        THEN [users |-> users, resp |-> Response(403, [error |-> "Forbidden"])]
        ELSE IF old = Null
        THEN [users |-> users, resp |-> InternalServerError]
        ELSE LET new == UpdateUserRow(old, body)
             IN  [users |-> (users \ {old}) \cup {new},
                  resp |-> Response(200, PublicUser(new))]

\* PUT /api/users/[id]: prisma.user.update throws when no row has the id
UpdateUserResult(header, id, body) ==
    LET userPayload == authenticateRequest(header)
        old == FindUserById(id)
    IN  IF userPayload = Null
        THEN [users |-> users, resp |-> Unauthorized]
        ELSE IF userPayload.userId # id /\ userPayload.role # "Admin"
        THEN [users |-> users, resp |-> Response(403, [error |-> "Forbidden"])]
        ELSE IF old = Null
        THEN [users |-> users, resp |-> InternalServerError]
        ELSE LET new == UpdateUserRow(old, body)
             IN  [users |-> (users \ {old}) \cup {new},
                  resp |-> Response(200, PublicUser(new))]

UpdateUser(header, id, body) ==
    LET r == UpdateUserResult(header, id, body)
    IN  /\ users' = r.users
        /\ resp' = r.resp
        /\ req' = Request("PUT /users/{id}", header, id, BodyFields(body, {"name", "organization"}))
        /\ UNCHANGED <<orders, nextOrderId, notifications, nextNotifId, formVars, loginVars, viewVars, pending>>

----------------------------------------------------------------------------
(* /api/notifications, /api/notifications/[id]/read, /api/notifications/read-all *)

\* the fields the notification routes return (the owner is not among them)
TransformNotification(n) ==
    [id |-> n.id, title |-> n.title, message |-> n.message, type |-> n.type,
     read |-> n.read]

RECURSIVE NotificationsNewestFirst(_)
NotificationsNewestFirst(rows) ==
    IF rows = {} THEN <<>>
    ELSE LET newest == CHOOSE n \in rows : \A m \in rows : m.id <= n.id
         IN  <<TransformNotification(newest)>> \o NotificationsNewestFirst(rows \ {newest})

\* prisma.notification.findMany({ where: { userId } })
NotificationsOf(userId) == { n \in notifications : n.userId = userId }

ListNotifications(header) ==
    LET user == authenticateRequest(header)
    IN  /\ resp' = IF user = Null THEN Unauthorized
                   ELSE Response(200, [list |-> NotificationsNewestFirst(NotificationsOf(user.userId))])
        /\ req' = Request("GET /notifications", header, 0, Null)
        /\ UNCHANGED <<users, orders, nextOrderId, notifications, nextNotifId, formVars, loginVars, viewVars, pending>>

\* POST /api/notifications: userId || user.userId, type || 'info'; a userId that
\* is no user's id breaks the foreign key and prisma throws
CreateNotificationResult(header, body) ==
    LET user == authenticateRequest(header)
    IN  IF user = Null
        THEN [notifications |-> notifications, resp |-> Unauthorized]
        ELSE LET owner == IF Has(body, "userId") /\ body.userId # 0
                          THEN body.userId ELSE user.userId
                 notification ==
                     [id |-> nextNotifId, userId |-> owner, title |-> body.title,
                      message |-> body.message,
                      type |-> IF Has(body, "type") /\ body.type # "" THEN body.type ELSE "info",
                      read |-> FALSE]
             IN  IF FindUserById(owner) = Null
                 THEN [notifications |-> notifications, resp |-> InternalServerError]
                 ELSE [notifications |-> notifications \cup {notification},
                       resp |-> Response(201, TransformNotification(notification))]

CreateNotification(header, body) ==
    LET r == CreateNotificationResult(header, body)
    IN  /\ r.notifications # notifications => nextNotifId <= MaxNotifIds
        /\ notifications' = r.notifications
        /\ nextNotifId' = IF r.notifications # notifications THEN nextNotifId + 1 ELSE nextNotifId
        /\ resp' = r.resp
        /\ req' = Request("POST /notifications", header, 0, Null)
        /\ UNCHANGED <<users, orders, nextOrderId, formVars, loginVars, viewVars, pending>>

\* a faulty variant: the update looks the row up by id alone
FindNotificationAnyOwner(id, userId) ==
    IF \E n \in notifications : n.id = id
    THEN CHOOSE n \in notifications : n.id = id
    ELSE Null

\* where: { id: params.id, userId: user.userId }
FindNotification(id, userId) ==
    IF \E n \in notifications : n.id = id /\ n.userId = userId
    THEN CHOOSE n \in notifications : n.id = id /\ n.userId = userId
    ELSE Null

\* PUT /api/notifications/[id]/read: prisma.notification.update throws when no
\* row matches the where clause
MarkReadResult(header, id) ==
    LET user == authenticateRequest(header)
    IN  IF user = Null
        THEN [notifications |-> notifications, resp |-> Unauthorized]
        ELSE LET old == FindNotification(id, user.userId)
             IN  IF old = Null
                 THEN [notifications |-> notifications, resp |-> InternalServerError]
                 ELSE LET new == [old EXCEPT !.read = TRUE]
                      IN  [notifications |-> (notifications \ {old}) \cup {new},
                           resp |-> Response(200, [id |-> new.id, read |-> new.read])]

MarkRead(header, id) ==
    LET r == MarkReadResult(header, id)
    IN  /\ notifications' = r.notifications
        /\ resp' = r.resp
        /\ req' = Request("PUT /notifications/{id}/read", header, id, Null)
        /\ UNCHANGED <<users, orders, nextOrderId, nextNotifId, formVars, loginVars, viewVars, pending>>

\* a faulty variant: updateMany without read: false in the where clause
UnreadOfAll(userId) == { n \in notifications : n.userId = userId }

\* updateMany's where: { userId: user.userId, read: false }
UnreadOf(userId) == { n \in notifications : n.userId = userId /\ ~n.read }

\* PUT /api/notifications/read-all
MarkAllReadResult(header) ==
    LET user == authenticateRequest(header)
    IN  IF user = Null
        THEN [notifications |-> notifications, resp |-> Unauthorized]
        ELSE LET matched == UnreadOf(user.userId)
             IN  [notifications |->
                      (notifications \ matched) \cup { [n EXCEPT !.read = TRUE] : n \in matched },
                  resp |-> Response(200, [message |-> "All notifications marked as read",
                                          count |-> Cardinality(matched)])]

MarkAllRead(header) ==
    LET r == MarkAllReadResult(header)
    IN  /\ notifications' = r.notifications
        /\ resp' = r.resp
        /\ req' = Request("PUT /notifications/read-all", header, 0, Null)
        /\ UNCHANGED <<users, orders, nextOrderId, nextNotifId, formVars, loginVars, viewVars, pending>>

----------------------------------------------------------------------------
(* components/SalesView.tsx: the order form *)

TOP_SIZES == <<"XS", "S", "M", "L", "XL", "2XL", "3XL">>
BOTTOM_SIZES == <<"28", "30", "32", "34", "36", "38", "40", "42">>

\* the first MaxPreset labels of a preset list, each with quantity 0
PresetSizes(labels) ==
    [i \in 1..MaxPreset |-> [size |-> labels[i], quantity |-> 0]]

\* Math.random().toString(36).substr(2, 9): nine characters, none in use
LocalIdsInUse ==
    { items[i].id : i \in 1..Len(items) } \cup { appOrders[i].id : i \in 1..Len(appOrders) }

NewLocalId ==
    [len |-> 9,
     n |-> CHOOSE n \in 1..(Cardinality(LocalIdsInUse) + 1) :
              /\ [len |-> 9, n |-> n] \notin LocalIdsInUse
              /\ \A m \in 1..(n - 1) : [len |-> 9, n |-> m] \in LocalIdsInUse]

createNewItem ==
    [id |-> NewLocalId, productName |-> "", sizes |-> PresetSizes(TOP_SIZES),
     totalQuantity |-> 0, sizeCategory |-> "Top"]

EmptyHeader == [orderNumber |-> "", clientName |-> ""]

\* the mock order App starts with when localStorage has no orders
MockOrder ==
    [id |-> [len |-> 1, n |-> 1], orderNumber |-> "OS-2025290",
     clientName |-> "Al Gurg Group", productName |-> "SPORTS JERSEY",
     sizes |-> <<[size |-> "M", quantity |-> 4], [size |-> "XL", quantity |-> 4]>>,
     totalQuantity |-> 8, status |-> "Stitching", postDelivery |-> Null]

resetForm ==
    /\ headerData' = EmptyHeader
    /\ items' = <<createNewItem>>
    /\ activeTab' = 0
    /\ editingOrderNumber' = <<>>
    /\ UNCHANGED <<appOrders, serverVars, loginVars, viewVars, pending>>

\* orders.filter(o => o.orderNumber === orderNumber), in list order
RECURSIVE RelatedOrders(_, _)
RelatedOrders(list, orderNumber) ==
    IF list = <<>> THEN <<>>
    ELSE IF Head(list).orderNumber = orderNumber
    THEN <<Head(list)>> \o RelatedOrders(Tail(list), orderNumber)
    ELSE RelatedOrders(Tail(list), orderNumber)

ItemOfOrder(o) ==
    [id |-> o.id, productName |-> o.productName, sizes |-> o.sizes,
     totalQuantity |-> o.totalQuantity, sizeCategory |-> "Custom"]

openFormForEdit(orderNumber) ==
    LET relatedOrders == RelatedOrders(appOrders, orderNumber)
    IN  IF relatedOrders = <<>>
        THEN UNCHANGED vars
        ELSE /\ editingOrderNumber' = <<orderNumber>>
             /\ headerData' = [orderNumber |-> relatedOrders[1].orderNumber,
                               clientName |-> relatedOrders[1].clientName]
             /\ items' = [i \in 1..Len(relatedOrders) |-> ItemOfOrder(relatedOrders[i])]
             /\ activeTab' = 0
             /\ UNCHANGED <<appOrders, serverVars, loginVars, viewVars, pending>>

\* parseInt(e.target.value) || 0 for the texts a number input can hold
ParseIntOrZero(text) ==
    CASE text = "2" -> 2
      [] text = "-1" -> -1
      [] text = "1.5" -> 1
      [] OTHER -> 0

\* handleItemChange(index, field, value) for the two fields the model keeps
handleItemChange(index, field, value) ==
    /\ index \in 1..Len(items)
    /\ items' = [items EXCEPT ![index] =
         IF field = "sizeCategory"
         THEN LET sizes == IF value = "Top" THEN PresetSizes(TOP_SIZES)
                           ELSE IF value = "Bottom" THEN PresetSizes(BOTTOM_SIZES)
                           ELSE <<>>
              IN  [@ EXCEPT !.sizeCategory = value, !.sizes = sizes,
                            !.totalQuantity = SumQuantities(sizes)]
         ELSE [@ EXCEPT !.productName = value]]
    /\ UNCHANGED <<appOrders, activeTab, headerData, editingOrderNumber, serverVars, loginVars, viewVars, pending>>

\* the item after handleSizeChange: row sizeIdx edited, the total recomputed
SizeChangedItem(item, sizeIdx, field, value) ==
    LET newSizes == [item.sizes EXCEPT ![sizeIdx] =
                       IF field = "size" THEN [@ EXCEPT !.size = value]
                       ELSE [@ EXCEPT !.quantity = value]]
    IN  [item EXCEPT !.sizes = newSizes, !.totalQuantity = SumQuantities(newSizes)]

handleSizeChange(itemIdx, sizeIdx, field, value) ==
    /\ itemIdx \in 1..Len(items)
    /\ sizeIdx \in 1..Len(items[itemIdx].sizes)
    /\ items' = [items EXCEPT ![itemIdx] = SizeChangedItem(@, sizeIdx, field, value)]
    /\ UNCHANGED <<appOrders, activeTab, headerData, editingOrderNumber, serverVars, loginVars, viewVars, pending>>

\* sizes.push({ size: '', quantity: 0 }); the total is left as it is
addSizeRow(itemIdx) ==
    /\ itemIdx \in 1..Len(items)
    /\ Len(items[itemIdx].sizes) < MaxSizeRows
    /\ items' = [items EXCEPT ![itemIdx].sizes = Append(@, [size |-> "", quantity |-> 0])]
    /\ UNCHANGED <<appOrders, activeTab, headerData, editingOrderNumber, serverVars, loginVars, viewVars, pending>>

\* sizes.filter((_, i) => i !== sizeIdx)
RemoveAt(seq, idx) ==
    [i \in 1..(Len(seq) - 1) |-> IF i < idx THEN seq[i] ELSE seq[i + 1]]

\* a faulty variant: the total is not recomputed after a row is removed
SizeRemovedItemStaleTotal(item, sizeIdx) ==
    [item EXCEPT !.sizes = RemoveAt(item.sizes, sizeIdx)]

SizeRemovedItem(item, sizeIdx) ==
    LET newSizes == RemoveAt(item.sizes, sizeIdx)
    IN  [item EXCEPT !.sizes = newSizes, !.totalQuantity = SumQuantities(newSizes)]

removeSizeRow(itemIdx, sizeIdx) ==
    /\ itemIdx \in 1..Len(items)
    /\ sizeIdx \in 1..Len(items[itemIdx].sizes)
    /\ items' = [items EXCEPT ![itemIdx] = SizeRemovedItem(@, sizeIdx)]
    /\ UNCHANGED <<appOrders, activeTab, headerData, editingOrderNumber, serverVars, loginVars, viewVars, pending>>

addItemTab ==
    /\ Len(items) < MaxItems
    /\ items' = Append(items, createNewItem)
    /\ activeTab' = Len(items)
    /\ UNCHANGED <<appOrders, headerData, editingOrderNumber, serverVars, loginVars, viewVars, pending>>

\* a faulty variant: the tab is removed and the active tab left where it was
removeItemTabKeepsTab(index) ==
    /\ index \in 0..(Len(items) - 1)
    /\ IF Len(items) <= 1
       THEN UNCHANGED <<items, activeTab>>
       ELSE /\ items' = RemoveAt(items, index + 1)
            /\ activeTab' = activeTab
    /\ UNCHANGED <<appOrders, headerData, editingOrderNumber, serverVars, loginVars, viewVars, pending>>

\* index is 0-based, as the tab buttons pass it
removeItemTab(index) ==
    /\ index \in 0..(Len(items) - 1)
    /\ IF Len(items) <= 1
       THEN UNCHANGED <<items, activeTab>>
       ELSE /\ items' = RemoveAt(items, index + 1)
            /\ activeTab' = Max(0, IF activeTab >= index THEN activeTab - 1 ELSE activeTab)
    /\ UNCHANGED <<appOrders, headerData, editingOrderNumber, serverVars, loginVars, viewVars, pending>>

selectTab(idx) ==
    /\ idx \in 0..(Len(items) - 1)
    /\ activeTab' = idx
    /\ UNCHANGED <<appOrders, items, headerData, editingOrderNumber, serverVars, loginVars, viewVars, pending>>

----------------------------------------------------------------------------
(* components/Login.tsx and App: the browser-local accounts and session *)

NoMessage == [type |-> "none", text |-> ""]

\* DeliveryView's initial issueData; loggedAt is <<>> while the record has none
DefaultIssueData ==
    [status |-> "Successful", reason |-> "", solution |-> "", salesComments |-> "",
     loggedAt |-> <<>>]

\* App.addNotification: a fresh id, read: false, put in front of the list
AddNotification(list, title, type) ==
    <<[id |-> Len(list) + 1, title |-> title, type |-> type, read |-> FALSE]>> \o list

\* the notification App starts with when localStorage has none
WelcomeNotification == [id |-> 0, title |-> "Welcome to US81", type |-> "info", read |-> FALSE]

\* handleSubmit, register branch: the stored list and the message after it
LocalRegisterResult(formData) ==
    IF \E i \in 1..Len(usersDb) : usersDb[i].email = formData.email
    THEN [usersDb |-> usersDb,
          message |-> [type |-> "error", text |-> "Email already registered."]]
    ELSE [usersDb |-> Append(usersDb, [id |-> Len(usersDb) + 1] @@ formData),
          message |-> [type |-> "success", text |-> "Account created. Session saved."]]

\* users.find(u => u.email === formData.email && u.password === formData.password)
LocalFindUser(formData) ==
    IF \E i \in 1..Len(usersDb) :
          usersDb[i].email = formData.email /\ usersDb[i].password = formData.password
    THEN usersDb[CHOOSE i \in 1..Len(usersDb) :
                   /\ usersDb[i].email = formData.email
                   /\ usersDb[i].password = formData.password
                   /\ \A j \in 1..(i - 1) :
                        ~(usersDb[j].email = formData.email
                          /\ usersDb[j].password = formData.password)]
    ELSE Null

\* Login is rendered only while no user is signed in
handleSubmit(formData) ==
    /\ currentUser = Null
    /\ IF isRegister
       THEN LET r == LocalRegisterResult(formData)
            IN  /\ Len(r.usersDb) <= MaxLocalUsers
                /\ usersDb' = r.usersDb
                /\ message' = r.message
                /\ timers' = IF r.message.type = "success" THEN timers + 1 ELSE timers
                /\ UNCHANGED <<currentUser, appNotifications>>
       ELSE LET user == LocalFindUser(formData)
            IN  IF user # Null
                THEN \* onLogin(user): App.handleLogin
                     /\ Len(appNotifications) < MaxAppNotifs
                     /\ currentUser' = user
                     /\ appNotifications' =
                            AddNotification(appNotifications, "Login Successful", "success")
                     /\ UNCHANGED <<usersDb, message, timers>>
                ELSE /\ message' = [type |-> "error", text |-> "Access denied. Verify credentials."]
                     /\ UNCHANGED <<usersDb, timers, currentUser, appNotifications>>
    /\ UNCHANGED <<isRegister, formVars, serverVars, viewVars, pending>>

\* the two buttons that switch between sign-in and registration
setIsRegister(value) ==
    /\ currentUser = Null
    /\ isRegister' = value
    /\ message' = NoMessage
    /\ UNCHANGED <<usersDb, timers, currentUser, appNotifications, formVars, serverVars, viewVars, pending>>

\* setTimeout(() => { setIsRegister(false); setMessage(null) }, 1500)
registerTimeout ==
    /\ timers > 0
    /\ timers' = timers - 1
    /\ isRegister' = FALSE
    /\ message' = NoMessage
    /\ UNCHANGED <<usersDb, currentUser, appNotifications, formVars, serverVars, viewVars, pending>>

\* without a user App renders Login alone: the views unmount and lose their state
handleLogout ==
    /\ currentUser # Null
    /\ currentUser' = Null
    /\ productionSelected' = Null
    /\ deliverySelected' = Null
    /\ issueData' = DefaultIssueData
    /\ UNCHANGED <<usersDb, isRegister, message, timers, appNotifications, activeView,
                   formVars, serverVars, pending>>

----------------------------------------------------------------------------
(* App, ProductionView, DeliveryView: the browser-local production and quality flow *)

STAGES ==
    <<"Order Received", "Inspection", "Cutting", "Stitching", "Embroidery/Printing",
      "Quality Check", "Packing", "Delivered">>

ViewTypes == {"Dashboard", "Sales", "Production", "Delivery"}

\* a faulty variant: the text is tested untrimmed
TrimNothing(text) == text

\* String.prototype.trim on the texts the model uses
Trim(text) == IF text \in {"", " ", "  "} THEN "" ELSE text

\* orders.map(o => o.id === updated.id ? updated : o)
ReplaceById(list, updated) ==
    [i \in 1..Len(list) |-> IF list[i].id = updated.id THEN updated ELSE list[i]]

\* the notification part of App.updateOrder
NotificationsAfterUpdate(updated) ==
    IF updated.postDelivery # Null /\ updated.postDelivery.status = "Alteration Required"
    THEN AddNotification(appNotifications, "ALTERATION ALERT", "alert")
    ELSE appNotifications

\* App.updateOrder(updated): one setOrders and, for an alteration, one addNotification
updateOrder(updated) ==
    /\ Len(NotificationsAfterUpdate(updated)) <= MaxAppNotifs
    /\ appOrders' = ReplaceById(appOrders, updated)
    /\ appNotifications' = NotificationsAfterUpdate(updated)

\* SalesView.handleHeaderChange for the two header fields the model keeps
handleHeaderChange(name, value) ==
    /\ headerData' = [headerData EXCEPT ![name] = value]
    /\ UNCHANGED <<appOrders, items, activeTab, editingOrderNumber, serverVars, loginVars,
                   viewVars, pending>>

\* items.filter(item => item.productName.trim() !== '')
ValidItems == SelectSeq(items, LAMBDA item : Trim(item.productName) # "")

\* the i-th of the ids Math.random() gives within one event: nine characters, not in use
FreshLocalId(i) ==
    LET unused == { n \in 1..(Cardinality(LocalIdsInUse) + i) :
                      [len |-> 9, n |-> n] \notin LocalIdsInUse }
    IN  [len |-> 9,
         n |-> CHOOSE n \in unused : Cardinality({ m \in unused : m < n }) = i - 1]

\* a faulty variant: the saved order takes the id of its item
FinalIdOfItem(item, fresh) == item.id

\* id: item.id.length > 10 ? item.id : Math.random().toString(36).substr(2, 9)
FinalId(item, fresh) == IF item.id.len > 10 THEN item.id ELSE fresh

\* const finalOrders = validItems.map(item => ({ ...headerData, ...item, id: ...,
\* status: 'Order Received', ... })): the item has no postDelivery to carry over
FinalOrders ==
    [i \in 1..Len(ValidItems) |->
        [id |-> FinalId(ValidItems[i], FreshLocalId(i)),
         orderNumber |-> headerData.orderNumber, clientName |-> headerData.clientName,
         productName |-> ValidItems[i].productName, sizes |-> ValidItems[i].sizes,
         totalQuantity |-> ValidItems[i].totalQuantity, status |-> "Order Received",
         postDelivery |-> Null]]

\* the two alerts of finalizeSheet that end it before anything is saved
SheetRejected ==
    \/ headerData.orderNumber = ""
    \/ headerData.clientName = ""
    \/ ValidItems = <<>>

\* finalOrders.forEach(o => onAddOrder(o)) or finalOrders.forEach(o => onUpdateOrder(o)):
\* every call passes setOrders a list built from the orders of the render the
\* handler belongs to, so the list of the last call is the one that is set
OrdersAfterSave ==
    LET last == FinalOrders[Len(FinalOrders)]
    IN  IF editingOrderNumber # <<>>
        THEN ReplaceById(appOrders, last)
        ELSE <<last>> \o appOrders

RECURSIVE NotifiedTimes(_, _, _, _)
\* n calls of addNotification, whose setNotifications(prev => ...) do add up
NotifiedTimes(list, n, title, type) ==
    IF n = 0 THEN list
    ELSE AddNotification(NotifiedTimes(list, n - 1, title, type), title, type)

\* the notifications of the calls: one per added order; one per updated order
\* that carries an outcome of Alteration Required
NotificationsAfterSave ==
    IF editingOrderNumber # <<>>
    THEN NotifiedTimes(appNotifications,
                       Cardinality({ i \in 1..Len(FinalOrders) :
                                       /\ FinalOrders[i].postDelivery # Null
                                       /\ FinalOrders[i].postDelivery.status = "Alteration Required" }),
                       "ALTERATION ALERT", "alert")
    ELSE NotifiedTimes(appNotifications, Len(FinalOrders), "New Order Created", "success")

\* SalesView.finalizeSheet: validation, the calls for every order, resetForm
finalizeSheet ==
    /\ currentUser # Null
    /\ activeView = "Sales"
    /\ IF SheetRejected
       THEN UNCHANGED vars
       ELSE /\ Len(OrdersAfterSave) <= MaxAppOrders
            /\ Len(NotificationsAfterSave) <= MaxAppNotifs
            /\ appOrders' = OrdersAfterSave
            /\ appNotifications' = NotificationsAfterSave
            /\ headerData' = EmptyHeader
            /\ items' = <<[createNewItem EXCEPT !.id = FreshLocalId(Len(FinalOrders) + 1)]>>
            /\ activeTab' = 0
            /\ editingOrderNumber' = <<>>
            /\ UNCHANGED <<serverVars, usersDb, isRegister, message, timers, currentUser,
                           viewVars, pending>>

\* the sidebar buttons: another view is mounted with its initial state (the form
\* of SalesView is modelled by its own handlers)
setActiveView(v) ==
    /\ currentUser # Null
    /\ v # activeView
    /\ activeView' = v
    /\ productionSelected' = Null
    /\ deliverySelected' = Null
    /\ issueData' = DefaultIssueData
    /\ UNCHANGED <<serverVars, formVars, loginVars, pending>>

\* ProductionView: a click on an order of the list
selectProductionOrder(i) ==
    /\ currentUser # Null
    /\ activeView = "Production"
    /\ i \in 1..Len(appOrders)
    /\ productionSelected' = appOrders[i]
    /\ UNCHANGED <<serverVars, formVars, loginVars, activeView, deliverySelected, issueData, pending>>

\* a faulty variant: a move out of Delivered is ignored
StatusUpdatedGuarded(selectedOrder, status) ==
    IF selectedOrder.status = "Delivered" THEN selectedOrder
    ELSE [selectedOrder EXCEPT !.status = status]

\* const updated = { ...selectedOrder, status }
StatusUpdated(selectedOrder, status) == [selectedOrder EXCEPT !.status = status]

\* ProductionView.handleStatusUpdate(status): a stage button; no transition is refused
handleStatusUpdate(status) ==
    /\ currentUser # Null
    /\ activeView = "Production"
    /\ IF productionSelected = Null
       THEN UNCHANGED vars
       ELSE LET updated == StatusUpdated(productionSelected, status)
            IN  /\ updateOrder(updated)
                /\ productionSelected' = updated
                /\ UNCHANGED <<serverVars, items, activeTab, headerData, editingOrderNumber,
                               usersDb, isRegister, message, timers, currentUser,
                               activeView, deliverySelected, issueData, pending>>

\* DeliveryView.relevantOrders: the quality queue
IsRelevantOrder(o) == o.status \in {"Packing", "Quality Check", "Delivered"}

\* DeliveryView: a click on an order of the queue loads its outcome, if any
selectDeliveryOrder(i) ==
    /\ currentUser # Null
    /\ activeView = "Delivery"
    /\ i \in 1..Len(appOrders)
    /\ IsRelevantOrder(appOrders[i])
    /\ deliverySelected' = appOrders[i]
    /\ issueData' = IF appOrders[i].postDelivery # Null
                    THEN appOrders[i].postDelivery
                    ELSE DefaultIssueData
    /\ UNCHANGED <<serverVars, formVars, loginVars, activeView, productionSelected, pending>>

\* the outcome terminal's two buttons and two text areas
setIssueData(field, value) ==
    /\ currentUser # Null
    /\ activeView = "Delivery"
    /\ deliverySelected # Null
    /\ issueData' = [issueData EXCEPT ![field] = value]
    /\ UNCHANGED <<serverVars, formVars, loginVars, activeView, productionSelected,
                   deliverySelected, pending>>

\* handleLogIssue returns early without an order, and for an alteration whose
\* solution is blank
LogIssueAccepted ==
    /\ deliverySelected # Null
    /\ ~(issueData.status = "Alteration Required" /\ Trim(issueData.solution) = "")

\* a faulty variant: the outcome is attached and the status left as it was
LoggedOrderKeepsStatus(now) ==
    [deliverySelected EXCEPT !.postDelivery = [issueData EXCEPT !.loggedAt = <<now>>]]

\* a faulty variant: the form's loggedAt is not overwritten when it has one
LoggedOrderKeepsLoggedAt(now) ==
    [deliverySelected EXCEPT
        !.status = "Delivered",
        !.postDelivery = IF issueData.loggedAt = <<>>
                         THEN [issueData EXCEPT !.loggedAt = <<now>>]
                         ELSE issueData]

\* const updatedOrder = { ...selectedOrder, status: 'Delivered',
\*                        postDelivery: { ...issueData, loggedAt: now } }
LoggedOrder(now) ==
    [deliverySelected EXCEPT !.status = "Delivered",
                             !.postDelivery = [issueData EXCEPT !.loggedAt = <<now>>]]

\* the times already written on outcomes; the clock does not go back
LoggedTimes ==
    { appOrders[i].postDelivery.loggedAt[1] :
        i \in { j \in 1..Len(appOrders) : appOrders[j].postDelivery # Null } }

\* DeliveryView.handleLogIssue at time now
handleLogIssue(now) ==
    /\ currentUser # Null
    /\ activeView = "Delivery"
    /\ \A t \in LoggedTimes : t < now
    /\ IF ~LogIssueAccepted
       THEN UNCHANGED vars
       ELSE LET updatedOrder == LoggedOrder(now)
            IN  /\ updateOrder(updatedOrder)
                /\ deliverySelected' = updatedOrder
                /\ UNCHANGED <<serverVars, items, activeTab, headerData, editingOrderNumber,
                               usersDb, isRegister, message, timers, currentUser,
                               activeView, productionSelected, issueData, pending>>

\* a faulty variant: the bell flips each flag
MarkedReadToggled(list) == [i \in 1..Len(list) |-> [list[i] EXCEPT !.read = ~@]]

\* the bell: notifications.map(n => ({ ...n, read: true }))
MarkedRead(list) == [i \in 1..Len(list) |-> [list[i] EXCEPT !.read = TRUE]]

markNotifsRead ==
    /\ currentUser # Null
    /\ appNotifications' = MarkedRead(appNotifications)
    /\ UNCHANGED <<serverVars, formVars, viewVars, usersDb, isRegister, message, timers,
                   currentUser, pending>>

\* the Clear button: setNotifications([])
clearNotifs ==
    /\ currentUser # Null
    /\ appNotifications' = <<>>
    /\ UNCHANGED <<serverVars, formVars, viewVars, usersDb, isRegister, message, timers,
                   currentUser, pending>>

----------------------------------------------------------------------------
(* The inputs the environment sends *)

\* registration bodies: valid ones for two addresses, each with two passwords,
\* and one invalid in each validated field
RegisterBodies ==
    { [email |-> e, password |-> p, name |-> "Al", role |-> r] :
        e \in {"a@x.io", "b@x.io"}, p \in {"secret1", "secret2"}, r \in {"Admin", "Sales"} }
    \cup { [email |-> "not-an-email", password |-> "secret1", name |-> "Al", role |-> "Sales"],
           [email |-> "a@x.io", password |-> "short", name |-> "Al", role |-> "Sales"],
           [email |-> "a@x.io", password |-> "secret1", name |-> "B", role |-> "Sales"],
           [email |-> "a@x.io", password |-> "secret1", name |-> "Al", role |-> "Guest"],
           [email |-> "b@x.io", password |-> "secret1", name |-> "Bo", role |-> "Production",
            organization |-> "Acme"] }

\* the account the all-routes specification registers
OneRegisterBody ==
    { [email |-> "a@x.io", password |-> "secret1", name |-> "Al", role |-> "Admin"] }

\* the two accounts the order and notification checks register
FewRegisterBodies ==
    { [email |-> "a@x.io", password |-> "secret1", name |-> "Al", role |-> "Admin"],
      [email |-> "b@x.io", password |-> "secret2", name |-> "Bo", role |-> "Sales"] }

\* registrations that repeat an address with another password, name and role
SameEmailRegisterBodies ==
    FewRegisterBodies
    \cup { [email |-> "a@x.io", password |-> "secret2", name |-> "Bo", role |-> "Sales"] }

Salts == {1, 2}

LoginBodies ==
    { [email |-> e, password |-> p] :
        e \in {"a@x.io", "b@x.io", "not-an-email"}, p \in {"secret1", "secret2", ""} }

LocalFormData ==
    { [email |-> e, password |-> p, name |-> "Al", organization |-> "", role |-> "Sales"] :
        e \in {"a@x.io", "b@x.io"}, p \in {"secret1", "secret2"} }

UserIds == 1..MaxUsers

OrderNumbers == {"OS-1001", "OS-1002"}

Breakdown == <<[size |-> "M", quantity |-> 3], [size |-> "L", quantity |-> 2]>>

\* creation bodies: a breakdown with its total or with another one, a date or
\* a text that is no date
CreateOrderBodies ==
    { [orderNumber |-> n, sizes |-> Breakdown, totalQuantity |-> t,
       status |-> "Order Received", date |-> d,
       startDate |-> "2026-02-17", deliveryDate |-> "2026-03-01"] :
        n \in OrderNumbers, t \in {5, 0}, d \in {"2026-02-17", "not a date"} }

\* creation bodies that name a sales person, or none, and a first status
AuthoredCreateOrderBodies ==
    { [orderNumber |-> n, sizes |-> Breakdown, totalQuantity |-> 5,
       status |-> st, date |-> "2026-02-17",
       startDate |-> "2026-02-17", deliveryDate |-> "2026-03-01"] :
        n \in OrderNumbers, st \in {"Order Received", "Delivered"} }
    \cup { [orderNumber |-> n, sizes |-> Breakdown, totalQuantity |-> 5,
            status |-> "Order Received", date |-> "2026-02-17",
            startDate |-> "2026-02-17", deliveryDate |-> "2026-03-01", salesPersonId |-> u] :
              n \in OrderNumbers, u \in UserIds }

\* partial updates: the status, the breakdown without its total, the order number
UpdateOrderBodies ==
    { [status |-> "Packing"],
      [sizes |-> <<[size |-> "S", quantity |-> 1]>>],
      [orderNumber |-> "OS-1002"] }

\* the single bodies the all-routes specification sends
FewCreateOrderBodies ==
    { [orderNumber |-> "OS-1001", sizes |-> Breakdown, totalQuantity |-> 5,
       status |-> "Order Received", date |-> "2026-02-17",
       startDate |-> "2026-02-17", deliveryDate |-> "2026-03-01"] }

FewUpdateOrderBodies == { [status |-> "Packing"] }

\* the order numbers typed into the header of a sheet
SheetNumbers == {"OS-1001"}

\* the product names typed into an item: a name and a blank text
ProductNames == {"POLO", "  "}

\* creation bodies with a date that parses: each number with two totals
TwoTotalsCreateOrderBodies == { b \in CreateOrderBodies : b.date = "2026-02-17" }

\* creation bodies for two orders that differ in the number alone
TwoCreateOrderBodies ==
    { b \in CreateOrderBodies : b.totalQuantity = 5 /\ b.date = "2026-02-17" }

\* partial updates of scalar fields and of the three dates: one field, several
\* fields, a text that is no date, an empty text
MergeBodies ==
    { [status |-> "Packing"],
      [totalQuantity |-> 9],
      [deliveryDate |-> "2026-02-17"],
      [date |-> "2026-03-01", status |-> "Cutting"],
      [startDate |-> "2026-03-01", deliveryDate |-> "2026-02-17", totalQuantity |-> 0],
      [startDate |-> "not a date"],
      [deliveryDate |-> "", status |-> "Packing"] }

UpdateUserBodies == { [organization |-> "Acme"], [name |-> "Ann"], [name |-> ""] }

FewUpdateUserBodies == { [organization |-> "Acme"] }

\* the accounts of the profile checks: an administrator and two other roles
ProfileRegisterBodies ==
    { [email |-> "a@x.io", password |-> "secret1", name |-> "Al", role |-> "Admin"],
      [email |-> "b@x.io", password |-> "secret2", name |-> "Bo", role |-> "Sales"],
      [email |-> "c@x.io", password |-> "secret1", name |-> "Cy", role |-> "Production",
       organization |-> "Acme"] }

\* profile updates: the two fields the route reads, an empty name, an empty
\* organization, and a body that also carries fields the route must not write
ProfileUpdateBodies ==
    { [organization |-> "Beta"],
      [organization |-> ""],
      [name |-> "Ann"],
      [name |-> ""],
      [organization |-> "Beta", role |-> "Admin", email |-> "z@x.io", id |-> 9,
       passwordHash |-> hashPassword("secret9", 1)] }

\* notification bodies: for the caller, for a named user, for no user at all
CreateNotificationBodies ==
    { [title |-> "Order Update", message |-> "Order status changed"],
      [title |-> "Order Update", message |-> "Order status changed", type |-> "alert"] }
    \cup { [userId |-> u, title |-> "Order Update", message |-> "Order status changed",
            type |-> "info"] : u \in UserIds \cup {MaxUsers + 1} }

FewCreateNotificationBodies ==
    { [title |-> "Order Update", message |-> "Order status changed"] }

\* one header of each valid caller, and no header
FewHeaders == ValidHeaders \cup {Null}

OrderIds == 1..MaxOrderIds
NotifIds == 1..MaxNotifIds

\* the account the production and quality checks sign in with
OneLocalFormData ==
    { [email |-> "a@x.io", password |-> "secret1", name |-> "Al", organization |-> "",
       role |-> "Sales"] }

\* PUT bodies that carry nothing but a status, one for each stage
StatusBodies == { [status |-> STAGES[k]] : k \in 1..Len(STAGES) }

\* the stages the quality checks move the order through
FewStages == {"Stitching", "Packing", "Delivered"}

\* PUT bodies with a post-delivery outcome: as a nested write, with a solution,
\* an empty one or none, and as a plain object
OutcomeBodies ==
    { [postDelivery |-> [create |-> [status |-> "Alteration Required", solution |-> <<"Resew hem">>]]],
      [postDelivery |-> [create |-> [status |-> "Alteration Required", solution |-> <<"">>]]],
      [postDelivery |-> [create |-> [status |-> "Alteration Required", solution |-> <<>>]]],
      [postDelivery |-> [create |-> [status |-> "Successful", solution |-> <<>>]]],
      [postDelivery |-> [status |-> "Alteration Required", solution |-> <<"">>]] }

SolutionTexts == {"", "  ", "Resew hem"}

\* the times new Date() gives to the outcomes of one run
Times == 1..MaxLogs

QuantityTexts == {"", "2", "-1", "abc"}
SizeLabels == {"Free"}
SizeCategories == {"Top", "Bottom", "Custom"}

----------------------------------------------------------------------------
(* Specifications *)

Init ==
    /\ users = {}
    /\ orders = {}
    /\ nextOrderId = 1
    /\ notifications = {}
    /\ nextNotifId = 1
    /\ req = NoRequest
    /\ resp = NoResponse
    /\ appOrders = <<MockOrder>>
    /\ items = <<[id |-> [len |-> 9, n |-> 1], productName |-> "",
                  sizes |-> PresetSizes(TOP_SIZES), totalQuantity |-> 0,
                  sizeCategory |-> "Top"]>>
    /\ activeTab = 0
    /\ headerData = EmptyHeader
    /\ editingOrderNumber = <<>>
    /\ usersDb = <<>>
    /\ isRegister = FALSE
    /\ message = NoMessage
    /\ timers = 0
    /\ currentUser = Null
    /\ appNotifications = <<WelcomeNotification>>
    /\ activeView = "Dashboard"
    /\ productionSelected = Null
    /\ deliverySelected = Null
    /\ issueData = DefaultIssueData
    /\ pending = {}

\* every route of the API, with one body of each kind and every kind of header
Next ==
    \/ \E body \in OneRegisterBody : Register(body, 1)
    \/ \E body \in OneRegisterBody : Login([email |-> body.email, password |-> body.password])
    \/ \E h \in Headers : ListOrders(h)
    \/ \E h \in Headers, body \in FewCreateOrderBodies : CreateOrder(h, body)
    \/ \E h \in Headers, id \in OrderIds : GetOrder(h, id)
    \/ \E h \in Headers, id \in OrderIds, body \in FewUpdateOrderBodies : UpdateOrder(h, id, body)
    \/ \E h \in Headers, id \in OrderIds : DeleteOrder(h, id)
    \/ \E h \in Headers : GetMe(h)
    \/ \E h \in Headers, id \in UserIds : GetUser(h, id)
    \/ \E h \in Headers, id \in UserIds, body \in FewUpdateUserBodies : UpdateUser(h, id, body)
    \/ \E h \in Headers : ListNotifications(h)
    \/ \E h \in Headers, body \in FewCreateNotificationBodies : CreateNotification(h, body)
    \/ \E h \in Headers, id \in NotifIds : MarkRead(h, id)
    \/ \E h \in Headers : MarkAllRead(h)

Spec == Init /\ [][Next]_vars

\* the account routes of the API
AuthNext ==
    \/ \E body \in RegisterBodies, salt \in Salts : Register(body, salt)
    \/ \E body \in LoginBodies : Login(body)

AuthSpec == Init /\ [][AuthNext]_vars

\* registration, by the API route and by the browser-local Login component
RegNext ==
    \/ \E body \in SameEmailRegisterBodies : Register(body, 1)
    \/ \E formData \in LocalFormData : handleSubmit(formData)
    \/ \E value \in BOOLEAN : setIsRegister(value)
    \/ registerTimeout
    \/ handleLogout

RegSpec == Init /\ [][RegNext]_vars

\* the order routes, called by two registered users
OrderNext ==
    \/ \E body \in FewRegisterBodies : Register(body, 1)
    \/ \E h \in FewHeaders : ListOrders(h)
    \/ \E h \in FewHeaders, body \in CreateOrderBodies : CreateOrder(h, body)
    \/ \E h \in FewHeaders, id \in OrderIds : GetOrder(h, id)
    \/ \E h \in FewHeaders, id \in OrderIds, body \in UpdateOrderBodies : UpdateOrder(h, id, body)
    \/ \E h \in FewHeaders, id \in OrderIds : DeleteOrder(h, id)

OrderSpec == Init /\ [][OrderNext]_vars

\* the creation of orders by two registered users, with bodies that set the
\* sales person and the status themselves
CreateNext ==
    \/ \E body \in FewRegisterBodies : Register(body, 1)
    \/ \E h \in FewHeaders, body \in AuthoredCreateOrderBodies : CreateOrder(h, body)
    \/ \E h \in FewHeaders : ListOrders(h)
    \/ \E h \in FewHeaders, id \in OrderIds : DeleteOrder(h, id)

CreateSpec == Init /\ [][CreateNext]_vars

\* the notification routes, called by two registered users
NotifNext ==
    \/ \E body \in FewRegisterBodies : Register(body, 1)
    \/ \E h \in FewHeaders : ListNotifications(h)
    \/ \E h \in FewHeaders, body \in CreateNotificationBodies : CreateNotification(h, body)
    \/ \E h \in FewHeaders, id \in NotifIds : MarkRead(h, id)
    \/ \E h \in FewHeaders : MarkAllRead(h)

NotifSpec == Init /\ [][NotifNext]_vars

\* the browser-local session: sign-in with one account, and the views' frame
SessionNext ==
    \/ \E formData \in OneLocalFormData : handleSubmit(formData)
    \/ \E value \in BOOLEAN : setIsRegister(value)
    \/ registerTimeout
    \/ \E v \in {"Dashboard", "Production", "Delivery"} : setActiveView(v)

\* the status of an order, set through PUT /orders/{id} and in ProductionView
StatusNext ==
    \/ \E body \in OneRegisterBody : Register(body, 1)
    \/ \E h \in ValidHeaders, body \in FewCreateOrderBodies : CreateOrder(h, body)
    \/ \E h \in ValidHeaders, id \in OrderIds, body \in StatusBodies : UpdateOrder(h, id, body)
    \/ SessionNext
    \/ \E i \in 1..Len(appOrders) : selectProductionOrder(i)
    \/ \E k \in 1..Len(STAGES) : handleStatusUpdate(STAGES[k])

StatusSpec == Init /\ [][StatusNext]_vars

\* post-delivery outcomes sent to PUT /orders/{id}
OutcomeNext ==
    \/ \E body \in FewRegisterBodies : Register(body, 1)
    \/ \E h \in FewHeaders, body \in FewCreateOrderBodies : CreateOrder(h, body)
    \/ \E h \in FewHeaders, id \in OrderIds, body \in OutcomeBodies \cup FewUpdateOrderBodies :
          UpdateOrder(h, id, body)
    \/ \E h \in FewHeaders, id \in OrderIds : GetOrder(h, id)

OutcomeSpec == Init /\ [][OutcomeNext]_vars

\* the quality flow: ProductionView brings the order to the queue of
\* DeliveryView, where outcomes are logged; the bell reads and clears the feed
QualityNext ==
    \/ SessionNext
    \/ handleLogout
    \/ \E i \in 1..Len(appOrders) : selectProductionOrder(i)
    \/ \E status \in FewStages : handleStatusUpdate(status)
    \/ \E i \in 1..Len(appOrders) : selectDeliveryOrder(i)
    \/ \E st \in {"Successful", "Alteration Required"} : setIssueData("status", st)
    \/ \E text \in SolutionTexts :
          issueData.status = "Alteration Required" /\ setIssueData("solution", text)
    \/ setIssueData("salesComments", "Late")
    \/ \E now \in Times : handleLogIssue(now)
    \/ markNotifsRead
    \/ clearNotifs

QualitySpec == Init /\ [][QualityNext]_vars

\* the profile routes, called by every registered user for every id
ProfileNext ==
    \/ \E body \in ProfileRegisterBodies : Register(body, 1)
    \/ \E h \in ValidHeaders, id \in UserIds \cup {MaxUsers + 1} : GetUser(h, id)
    \/ \E h \in ValidHeaders, id \in UserIds \cup {MaxUsers + 1}, body \in ProfileUpdateBodies :
           UpdateUser(h, id, body)

ProfileSpec == Init /\ [][ProfileNext]_vars

\* registrations and order creations that overlap: each handler runs to its
\* lookup, and its insert comes after any number of steps of the others
RaceNext ==
    \/ \E body \in SameEmailRegisterBodies : RegisterLookup(body)
    \/ \E p \in pending : RegisterInsert(p)
    \/ \E h \in ValidHeaders, body \in TwoTotalsCreateOrderBodies : CreateOrderLookup(h, body)
    \/ \E p \in pending : CreateOrderInsert(p)

RaceSpec == Init /\ [][RaceNext]_vars

\* the sheets of SalesView: a signed-in user fills the form, for a new sheet or
\* for the sheet of a listed order, and saves it
SheetNext ==
    \/ \E formData \in OneLocalFormData : handleSubmit(formData)
    \/ setIsRegister(TRUE)
    \/ registerTimeout
    \/ setActiveView("Sales")
    \/ clearNotifs
    \/ resetForm
    \/ \E o \in 1..Len(appOrders) : openFormForEdit(appOrders[o].orderNumber)
    \/ \E number \in SheetNumbers : handleHeaderChange("orderNumber", number)
    \/ handleHeaderChange("clientName", "Acme")
    \/ \E name \in ProductNames : handleItemChange(activeTab + 1, "productName", name)
    \/ addItemTab
    \/ finalizeSheet

SheetSpec == Init /\ [][SheetNext]_vars

\* partial updates of two stored orders
MergeNext ==
    \/ \E body \in OneRegisterBody : Register(body, 1)
    \/ \E h \in ValidHeaders, body \in TwoCreateOrderBodies : CreateOrder(h, body)
    \/ \E h \in ValidHeaders, id \in OrderIds, body \in MergeBodies : UpdateOrder(h, id, body)
    \/ \E h \in ValidHeaders, id \in OrderIds : GetOrder(h, id)

MergeSpec == Init /\ [][MergeNext]_vars

\* the two notification feeds: the API's table and the browser-local list
FeedNext ==
    \/ \E body \in OneRegisterBody : Register(body, 1)
    \/ \E h \in ValidHeaders, body \in FewCreateNotificationBodies : CreateNotification(h, body)
    \/ \E h \in ValidHeaders, id \in NotifIds : MarkRead(h, id)
    \/ \E h \in ValidHeaders : MarkAllRead(h)
    \/ \E formData \in OneLocalFormData : handleSubmit(formData)
    \/ \E value \in BOOLEAN : setIsRegister(value)
    \/ registerTimeout
    \/ handleLogout
    \/ markNotifsRead
    \/ clearNotifs

FeedSpec == Init /\ [][FeedNext]_vars

\* the order form of SalesView; the handlers act on the item of the active tab
FormNext ==
    \/ resetForm
    \/ \E o \in 1..Len(appOrders) : openFormForEdit(appOrders[o].orderNumber)
    \/ \E c \in SizeCategories : handleItemChange(activeTab + 1, "sizeCategory", c)
    \/ \E si \in 1..MaxSizeRows, text \in QuantityTexts :
          handleSizeChange(activeTab + 1, si, "quantity", ParseIntOrZero(text))
    \/ \E si \in 1..MaxSizeRows, label \in SizeLabels :
          handleSizeChange(activeTab + 1, si, "size", label)
    \/ addSizeRow(activeTab + 1)
    \/ \E si \in 1..MaxSizeRows : removeSizeRow(activeTab + 1, si)
    \/ addItemTab
    \/ \E index \in 0..(MaxItems - 1) : removeItemTab(index)
    \/ \E idx \in 0..(MaxItems - 1) : selectTab(idx)

FormSpec == Init /\ [][FormNext]_vars

----------------------------------------------------------------------------
(* Properties *)

\* the arithmetic sum of a breakdown's quantities, from the first row on
RECURSIVE ArithmeticSum(_)
ArithmeticSum(sizes) ==
    IF sizes = <<>> THEN 0 ELSE Head(sizes).quantity + ArithmeticSum(Tail(sizes))

\* the principal a request's header stands for: the payload of a token this
\* server signed and that has not expired, under the Bearer scheme
Caller(r) ==
    IF r.header # Null /\ r.header.scheme = "Bearer " /\ r.header.rest.kind = "jwt"
       /\ r.header.rest.sig = JWT_SECRET /\ ~r.header.rest.expired
    THEN r.header.rest.payload
    ELSE Null

\* a step of the API: it handled a request
ApiStep == <<users, orders, nextOrderId, notifications, nextNotifId, req, resp>>'
             # <<users, orders, nextOrderId, notifications, nextNotifId, req, resp>>

\* C1: in the order form, every item's totalQuantity is the arithmetic sum of
\* the quantities of its current sizes list, after any sequence of size edits
\* (quantity or label edits, added and removed rows, a change of sizeCategory).
C1_TotalQuantityIsSum ==
    \A i \in 1..Len(items) : items[i].totalQuantity = ArithmeticSum(items[i].sizes)

\* C1 witness: an item loaded from the stored order (M 4, XL 4, total 8) lost
\* one of its rows and its total is now 4.
C1_Witness ==
    \E i \in 1..Len(items) :
        /\ items[i].sizeCategory = "Custom"
        /\ Len(items[i].sizes) = 1
        /\ items[i].sizes[1].quantity = 4
        /\ items[i].totalQuantity = 4

\* C2: every stored order's totalQuantity is the sum of its stored breakdown,
\* whatever total the request body carried.
C2_StoredTotalIsSum ==
    \A o \in orders : o.totalQuantity = ArithmeticSum(o.sizes)

\* C3: GET /notifications lists only notifications the caller owns, and
\* PUT /notifications/{id}/read changes no notification owned by another user.
C3_NotificationsIsolated ==
    [][ /\ (req'.op = "GET /notifications" /\ resp'.status = 200) =>
              \A k \in 1..Len(resp'.body.list) :
                  \E n \in notifications :
                      /\ n.id = resp'.body.list[k].id
                      /\ n.userId = Caller(req').userId
        /\ (ApiStep /\ req'.op = "PUT /notifications/{id}/read") =>
              /\ { n \in notifications' : Caller(req') = Null \/ n.userId # Caller(req').userId }
                   = { n \in notifications : Caller(req') = Null \/ n.userId # Caller(req').userId }
              /\ \A n \in notifications :
                    (Caller(req') # Null /\ n.userId = Caller(req').userId)
                       => \E m \in notifications' : m.id = n.id /\ m.userId = n.userId
      ]_vars

\* C3 witness: a user asked to mark read an unread notification that another
\* user owns, and it is still unread.
C3_Witness ==
    /\ req.op = "PUT /notifications/{id}/read"
    /\ Caller(req) # Null
    /\ \E n \in notifications : n.id = req.id /\ n.userId # Caller(req).userId /\ ~n.read

\* C4: PUT /notifications/read-all answers with the number of the caller's
\* unread notifications and leaves all the caller's notifications read; a
\* second call right after it answers 0; other users' notifications are as before.
C4_MarkAllReadIdempotent ==
    [][ (ApiStep /\ req'.op = "PUT /notifications/read-all" /\ Caller(req') # Null) =>
          LET me == Caller(req').userId
          IN  /\ resp'.status = 200
              /\ resp'.body.count =
                    Cardinality({ n \in notifications : n.userId = me /\ ~n.read })
              /\ \A n \in notifications' : n.userId = me => n.read
              /\ { n.id : n \in notifications' } = { n.id : n \in notifications }
              /\ { n \in notifications' : n.userId # me } = { n \in notifications : n.userId # me }
              /\ (req.op = "PUT /notifications/read-all" /\ Caller(req) = Caller(req'))
                    => resp'.body.count = 0
      ]_vars

\* C4 witness: a call that marked a notification of the caller while another
\* user's notification stayed unread.
C4_Witness ==
    /\ req.op = "PUT /notifications/read-all"
    /\ resp.status = 200
    /\ resp.body.count > 0
    /\ \E n \in notifications : n.userId # Caller(req).userId /\ ~n.read

\* the routes that need a bearer token
ProtectedOps ==
    { "GET /orders", "POST /orders", "GET /orders/{id}", "PUT /orders/{id}",
      "DELETE /orders/{id}", "GET /users/me", "GET /users/{id}", "PUT /users/{id}",
      "GET /notifications", "POST /notifications", "PUT /notifications/{id}/read",
      "PUT /notifications/read-all" }

\* C5: a protected route called without a header, with a header of another
\* scheme, or with a token that fails verification answers 401 Unauthorized,
\* the same response for each cause, and changes no stored row.
C5_UnauthenticatedIs401 ==
    [][ (ApiStep /\ req'.op \in ProtectedOps /\ req'.header \in InvalidHeaders) =>
          /\ resp' = Response(401, [error |-> "Unauthorized"])
          /\ users' = users
          /\ orders' = orders
          /\ notifications' = notifications
      ]_vars

\* C5 witness: DELETE of a stored order with an expired token of its owner.
C5_Witness ==
    /\ req.op = "DELETE /orders/{id}"
    /\ req.header # Null
    /\ req.header.rest.kind = "jwt"
    /\ req.header.rest.expired
    /\ resp.status = 401
    /\ \E o \in orders : o.id = req.id /\ o.salesPersonId = req.header.rest.payload.userId

\* C6: a registration of a valid body with a new email, followed at once by a
\* login with the same email and password, is answered 200 with a token whose
\* verified payload carries the id of the user the registration created.
C6_RegisterThenLogin ==
    [][ ( /\ req.op = "POST /auth/register"
          /\ resp.status = 201
          /\ ApiStep
          /\ req'.op = "POST /auth/login"
          /\ req'.body.email = req.body.email
          /\ req'.body.password = req.body.password ) =>
          /\ resp'.status = 200
          /\ verifyToken(resp'.body.token) # Null
          /\ verifyToken(resp'.body.token).userId = resp.body.user.id
          /\ resp'.body.user.id = resp.body.user.id
          /\ \E u \in users : u.id = resp.body.user.id /\ u.email = req.body.email
      ]_vars

\* C6 witness: the login of the user registered last (the second one, hashed
\* with the second salt) succeeded and its token carries that user's id.
C6_Witness ==
    /\ req.op = "POST /auth/login"
    /\ resp.status = 200
    /\ Cardinality(users) = 2
    /\ resp.body.user.id = 2
    /\ resp.body.token.payload.userId = 2
    /\ \E u \in users : u.id = 2 /\ u.email = req.body.email /\ u.passwordHash.salt = 2

\* C7: a login with an unregistered email and a login with a registered email
\* and a wrong password get the same response, which depends on the body
\* alone: 401 "Invalid credentials" without a token for a well-formed body.
C7_LoginFailuresAlike ==
    ( /\ req.op = "POST /auth/login"
      /\ \/ ~\E u \in users : u.email = req.body.email
         \/ \E u \in users : /\ u.email = req.body.email
                             /\ u.passwordHash.digest[2] # req.body.password ) =>
        /\ resp = IF loginSchemaOk(req.body)
                  THEN Response(401, [error |-> "Invalid credentials"])
                  ELSE Response(400, [error |-> "Invalid input"])
        /\ DOMAIN resp.body = {"error"}

\* C7 witness: a 401 for a registered email with a wrong password, while a
\* login with another email would not find a user.
C7_Witness ==
    /\ req.op = "POST /auth/login"
    /\ resp.status = 401
    /\ \E u \in users : /\ u.email = req.body.email
                        /\ u.passwordHash.digest[2] # req.body.password
    /\ \E e \in {"a@x.io", "b@x.io"} : ~\E u \in users : u.email = e

\* C8: no two stored users share an email, on the server and in the browser's
\* list; a registration with a stored email is rejected (400, or the error
\* message) and leaves the store as it was.
C8_EmailsUnique ==
    /\ [](/\ \A u, v \in users : u.email = v.email => u = v
          /\ \A i, j \in 1..Len(usersDb) : usersDb[i].email = usersDb[j].email => i = j
          /\ \A f \in LocalFormData :
                (\E i \in 1..Len(usersDb) : usersDb[i].email = f.email) =>
                    /\ LocalRegisterResult(f).usersDb = usersDb
                    /\ LocalRegisterResult(f).message.type = "error")
    /\ [][ /\ ( /\ ApiStep
                /\ req'.op = "POST /auth/register"
                /\ \E u \in users : u.email = req'.body.email ) =>
                  /\ resp'.status = 400
                  /\ users' = users
           /\ usersDb' # usersDb =>
                  /\ Len(usersDb') = Len(usersDb) + 1
                  /\ SubSeq(usersDb', 1, Len(usersDb)) = usersDb
                  /\ \A i \in 1..Len(usersDb) :
                        usersDb[i].email # usersDb'[Len(usersDb')].email
      ]_vars

\* C8 witness: the server refused a registration whose email a stored user
\* with another password has, and the browser shows the error for a list that
\* holds an account.
C8_Witness ==
    /\ req.op = "POST /auth/register"
    /\ resp = Response(400, [error |-> "Email already registered"])
    /\ \E u \in users : u.email = req.body.email /\ u.name # req.body.name
    /\ Len(usersDb) >= 1
    /\ message.text = "Email already registered."

\* C9: POST /orders with the order number of a stored order answers 400,
\* creates no order and leaves the stored orders as they were.
C9_DuplicateOrderNumberRejected ==
    [][ ( /\ ApiStep
          /\ req'.op = "POST /orders"
          /\ Caller(req') # Null
          /\ \E o \in orders : o.orderNumber = req'.body.orderNumber ) =>
          /\ resp' = Response(400, [error |-> "Order number already exists"])
          /\ orders' = orders
          /\ nextOrderId' = nextOrderId
      ]_vars

\* C9 witness: a 400 for the number of an order another user created, with
\* two orders stored.
C9_Witness ==
    /\ req.op = "POST /orders"
    /\ resp = Response(400, [error |-> "Order number already exists"])
    /\ Cardinality(orders) = 2
    /\ \E o \in orders : /\ o.orderNumber = req.body.orderNumber
                         /\ o.salesPersonId # Caller(req).userId

C11_SalesPersonIsCaller ==
    [][ (ApiStep /\ req'.op = "POST /orders" /\ resp'.status = 201) =>
          /\ Caller(req') # Null
          /\ Cardinality(orders' \ orders) = 1
          /\ \A o \in orders' \ orders :
                /\ o.salesPersonId = Caller(req').userId
                /\ resp'.body.id = o.id
                /\ resp'.body.salesPersonId = Caller(req').userId
      ]_vars

\* C11 witness: a body that names another user as sales person created an
\* order, which is stored under the caller's id.
C11_Witness ==
    /\ req.op = "POST /orders"
    /\ resp.status = 201
    /\ "salesPersonId" \in DOMAIN req.body
    /\ req.body.salesPersonId # Caller(req).userId
    /\ \E o \in orders : o.id = resp.body.id /\ o.salesPersonId = Caller(req).userId

\* C12: GET, PUT and DELETE on /orders/{id} with an id no stored order has
\* answer 404 and leave the stored orders as they were.
C12_MissingOrderIs404 ==
    [][ ( /\ ApiStep
          /\ req'.op \in {"GET /orders/{id}", "PUT /orders/{id}", "DELETE /orders/{id}"}
          /\ Caller(req') # Null
          /\ ~\E o \in orders : o.id = req'.id ) =>
          /\ resp'.status = 404
          /\ orders' = orders
      ]_vars

\* C13: PUT /notifications/{id}/read for an id that no notification has, or
\* that a notification of another user has, answers 403 or 404.
C13_MarkReadForeignIs403Or404 ==
    [][ ( /\ ApiStep
          /\ req'.op = "PUT /notifications/{id}/read"
          /\ Caller(req') # Null
          /\ ~\E n \in notifications : n.id = req'.id /\ n.userId = Caller(req').userId ) =>
          resp'.status \in {403, 404}
      ]_vars

\* C14: a notification's read flag never goes back from true to false, its
\* title, message, type and owner never change, and a notification leaves a
\* feed only when the browser-local list is cleared as a whole; no route of the
\* API removes one.
C14_NotificationsImmutable ==
    [][ /\ \A n \in notifications :
              \E m \in notifications' :
                  /\ m.id = n.id
                  /\ m.userId = n.userId
                  /\ m.title = n.title
                  /\ m.message = n.message
                  /\ m.type = n.type
                  /\ n.read => m.read
        /\ \/ appNotifications' = <<>>
           \/ \A i \in 1..Len(appNotifications) :
                  \E j \in 1..Len(appNotifications') :
                      /\ appNotifications'[j].id = appNotifications[i].id
                      /\ appNotifications'[j].title = appNotifications[i].title
                      /\ appNotifications'[j].type = appNotifications[i].type
                      /\ appNotifications[i].read => appNotifications'[j].read
      ]_vars

\* C14 witness: both feeds hold a notification that was read, the local one
\* under a newer unread one, and the last request marked a notification read.
C14_Witness ==
    /\ req.op = "PUT /notifications/{id}/read"
    /\ resp.status = 200
    /\ \E n \in notifications : n.id = req.id /\ n.read
    /\ Len(appNotifications) = 2
    /\ ~appNotifications[1].read
    /\ appNotifications[2].read

\* C15: the status is an unguarded label. PUT /orders/{id} with a body of
\* {status} alone answers 200 and changes the status of the row, and nothing
\* else, to the value sent; in ProductionView every stage button, from every
\* status, replaces the status of the selected order and nothing else.
C15_StatusUnguarded ==
    /\ [][ ( /\ ApiStep
             /\ req'.op = "PUT /orders/{id}"
             /\ Caller(req') # Null
             /\ DOMAIN req'.body = {"status"}
             /\ \E o \in orders : o.id = req'.id ) =>
               /\ resp'.status = 200
               /\ resp'.body.status = req'.body.status
               /\ \E o \in orders :
                     /\ o.id = req'.id
                     /\ orders' = (orders \ {o}) \cup {[o EXCEPT !.status = req'.body.status]}
         ]_vars
    /\ [][ (activeView = "Production" /\ appOrders' # appOrders) =>
               /\ Len(appOrders') = Len(appOrders)
               /\ \A i \in 1..Len(appOrders) :
                     appOrders'[i] = [appOrders[i] EXCEPT !.status = appOrders'[i].status]
         ]_vars
    /\ []( (currentUser # Null /\ activeView = "Production" /\ productionSelected # Null) =>
              \A k \in 1..Len(STAGES) :
                 \E i \in 1..Len(appOrders) :
                    /\ appOrders[i].id = productionSelected.id
                    /\ ReplaceById(appOrders, StatusUpdated(productionSelected, STAGES[k]))[i]
                         = [appOrders[i] EXCEPT !.status = STAGES[k]] )

\* C15 witness: the stored order was moved out of Delivered by a PUT, and the
\* browser's order, which starts in Stitching, stands at Order Received again.
C15_Witness ==
    /\ req.op = "PUT /orders/{id}"
    /\ resp.status = 200
    /\ req.body.status = "Cutting"
    /\ \E o \in orders : o.id = req.id /\ o.status = "Cutting"
    /\ appOrders[1].status = "Order Received"
    /\ productionSelected = appOrders[1]

\* C16: the update that attaches a post-delivery outcome to an order also
\* sets its status to Delivered, whatever the status was, and changes nothing
\* else of the order.
C16_OutcomeForcesDelivered ==
    [][ /\ Len(appOrders') = Len(appOrders)
        /\ \A i \in 1..Len(appOrders) :
              appOrders'[i].postDelivery # appOrders[i].postDelivery =>
                 /\ appOrders'[i].postDelivery # Null
                 /\ appOrders'[i].status = "Delivered"
                 /\ appOrders'[i] = [appOrders[i] EXCEPT
                                       !.status = "Delivered",
                                       !.postDelivery = appOrders'[i].postDelivery]
      ]_vars

\* C16 witness: the first outcome of the order is logged and the order, which
\* came into the queue as Packing, is Delivered.
C16_Witness ==
    /\ activeView = "Delivery"
    /\ appOrders[1].postDelivery # Null
    /\ appOrders[1].postDelivery.loggedAt = <<1>>
    /\ appOrders[1].status = "Delivered"
    /\ deliverySelected = appOrders[1]

\* C17: no stored order carries a post-delivery outcome of status
\* "Alteration Required" without a solution or with an empty one.
C17_StoredAlterationHasSolution ==
    \A o \in orders :
        (o.postDelivery # Null /\ o.postDelivery.status = "Alteration Required") =>
            o.postDelivery.solution \notin {<<>>, <<"">>}

\* C18: with the outcome "Alteration Required" and a solution that is empty
\* or blank, handleLogIssue returns before onUpdateOrder: no step of the
\* quality view stores such an outcome, and the orders stay as they are.
C18_BlankSolutionRejected ==
    /\ []( ( /\ deliverySelected # Null
             /\ issueData.status = "Alteration Required"
             /\ issueData.solution \in {"", " ", "  "} ) => ~LogIssueAccepted )
    /\ [][ ( /\ activeView = "Delivery"
             /\ issueData.status = "Alteration Required"
             /\ issueData.solution \in {"", " ", "  "} ) => appOrders' = appOrders
         ]_vars

\* C18 witness: an order without outcome is selected and the form holds an
\* alteration with a solution of two spaces.
C18_Witness ==
    /\ activeView = "Delivery"
    /\ deliverySelected # Null
    /\ deliverySelected.postDelivery = Null
    /\ issueData.status = "Alteration Required"
    /\ issueData.solution = "  "
    /\ \A i \in 1..Len(appOrders) : appOrders[i].postDelivery = Null

\* C19 as stated: once an order has a post-delivery record, no later step
\* changes that record.
C19_OutcomeNeverEdited ==
    [][ \A i \in 1..Len(appOrders) :
           appOrders[i].postDelivery # Null =>
              appOrders'[i].postDelivery = appOrders[i].postDelivery
      ]_vars

\* C19: a post-delivery record is never removed, and it changes only when an
\* outcome is logged again in the quality view: the record is then replaced
\* by the form's content with a later loggedAt; a status update in
\* ProductionView carries the record along unchanged.
C19_OutcomeReplacedOnlyByLogging ==
    [][ /\ Len(appOrders') = Len(appOrders)
        /\ \A i \in 1..Len(appOrders) :
              appOrders[i].postDelivery # Null =>
                 /\ appOrders'[i].postDelivery # Null
                 /\ appOrders'[i].postDelivery # appOrders[i].postDelivery =>
                       /\ activeView = "Delivery"
                       /\ deliverySelected # Null
                       /\ deliverySelected.id = appOrders[i].id
                       /\ appOrders'[i].postDelivery.loggedAt[1]
                            > appOrders[i].postDelivery.loggedAt[1]
                       /\ appOrders'[i].postDelivery =
                            [issueData EXCEPT !.loggedAt = appOrders'[i].postDelivery.loggedAt]
      ]_vars

\* C19 witness: the order's outcome was logged a second time, with another
\* status than the first, and moved back to Packing afterwards.
C19_Witness ==
    /\ appOrders[1].postDelivery # Null
    /\ appOrders[1].postDelivery.loggedAt = <<2>>
    /\ appOrders[1].postDelivery.status = "Alteration Required"
    /\ appOrders[1].status = "Packing"

\* C20, the route's part: an order created by POST /orders has the status
\* "Order Received", whatever status the body carries.
C20_CreatedIsOrderReceived ==
    [][ (ApiStep /\ req'.op = "POST /orders" /\ resp'.status = 201) =>
          \A o \in orders' \ orders : o.status = "Order Received"
      ]_vars

\* C21: PUT /users/{id} writes at most the name and the organization of the
\* target: its id, email, role and password hash stay, every other user stays,
\* whatever the body carries; a body with an organization and no name leaves
\* the name too, and a GET /users/{id} that follows returns the organization
\* sent with the name, role and email the row had before the update.
C21_ProfileUpdateFrame ==
    /\ [][ (ApiStep /\ req'.op = "PUT /users/{id}") =>
              \/ users' = users
              \/ \E old \in users, new \in users' :
                    /\ old.id = req'.id
                    /\ users' = (users \ {old}) \cup {new}
                    /\ new = [old EXCEPT !.name = new.name, !.organization = new.organization]
                    /\ ~Has(req'.body, "name") => new.name = old.name
                    /\ Has(req'.body, "organization") =>
                          new.organization = <<req'.body.organization>>
                    /\ resp'.status = 200
         ]_vars
    /\ [][ ( /\ req.op = "PUT /users/{id}"
             /\ resp.status = 200
             /\ DOMAIN req.body = {"organization"}
             /\ ApiStep
             /\ req'.op = "GET /users/{id}"
             /\ req'.id = req.id
             /\ Caller(req') # Null ) =>
               /\ resp'.status = 200
               /\ resp'.body.organization = <<req.body.organization>>
               /\ resp'.body = [resp.body EXCEPT !.organization = <<req.body.organization>>]
               /\ \E u \in users : /\ u.id = req.id
                                   /\ resp'.body.name = u.name
                                   /\ resp'.body.role = u.role
                                   /\ resp'.body.email = u.email
         ]_vars

\* C21 witness: the organization of a user registered without one was set,
\* and the GET that followed returned it with the registered name and role.
C21_Witness ==
    /\ req.op = "GET /users/{id}"
    /\ resp.status = 200
    /\ resp.body.organization = <<"Beta">>
    /\ resp.body.name = "Bo"
    /\ resp.body.role = "Sales"
    /\ resp.body.email = "b@x.io"
    /\ \E u \in users : u.id = req.id /\ u.passwordHash = hashPassword("secret2", 1)

\* C22: an authenticated PUT /users/{id} is answered 403 exactly when the
\* caller is neither the user {id} nor an Admin; a 403 leaves every user as it
\* was, and a permitted update of an existing user is answered 200.
C22_ProfileUpdateAuthorized ==
    [][ (ApiStep /\ req'.op = "PUT /users/{id}" /\ Caller(req') # Null) =>
          /\ resp'.status = 403 <=>
                (Caller(req').userId # req'.id /\ Caller(req').role # "Admin")
          /\ resp'.status = 403 => users' = users
          /\ (resp'.status # 403 /\ \E u \in users : u.id = req'.id) => resp'.status = 200
      ]_vars

\* C22 witness: a user who is no Admin sent a new organization for another
\* user who is no Admin either, and got the 403.
C22_Witness ==
    /\ req.op = "PUT /users/{id}"
    /\ resp.status = 403
    /\ Caller(req).role = "Sales"
    /\ \E u \in users : /\ u.id = req.id
                        /\ u.role = "Production"
                        /\ u.organization = <<"Acme">>

\* the fields of a user that a response may carry
PublicUserFields == {"id", "email", "name", "role", "organization"}

\* the order a response carries names its author by name and id, both texts
\* of a stored user, and has no field for the hash
OrderBodyIsPublic(body) ==
    /\ "passwordHash" \notin DOMAIN body
    /\ \E u \in users : body.salesPerson = u.name /\ body.salesPersonId = u.id

\* C23: no response carries a password hash. The user object answered by
\* register, login, GET /users/me and GET or PUT /users/{id} has the public
\* fields only, the token's payload has userId, email and role only, and the
\* orders answered by the order routes name the author by name and id.
C23_NoHashInResponses ==
    /\ "passwordHash" \notin DOMAIN resp.body
    /\ (req.op \in {"POST /auth/register", "POST /auth/login"} /\ resp.status \in {200, 201}) =>
          /\ DOMAIN resp.body = {"user", "token"}
          /\ DOMAIN resp.body.user = PublicUserFields
          /\ DOMAIN resp.body.token.payload = {"userId", "email", "role"}
    /\ (req.op \in {"GET /users/me", "GET /users/{id}", "PUT /users/{id}"} /\ resp.status = 200) =>
          DOMAIN resp.body = PublicUserFields
    /\ (req.op \in {"POST /orders", "GET /orders/{id}", "PUT /orders/{id}"}
          /\ resp.status \in {200, 201}) => OrderBodyIsPublic(resp.body)
    /\ (req.op = "GET /orders" /\ resp.status = 200) =>
          \A i \in 1..Len(resp.body.list) : OrderBodyIsPublic(resp.body.list[i])

\* C23 witness: the list of orders is answered with an order whose author's
\* row holds a hash.
C23_Witness ==
    /\ req.op = "GET /orders"
    /\ resp.status = 200
    /\ Len(resp.body.list) >= 1
    /\ \E u \in users : /\ u.id = resp.body.list[1].salesPersonId
                        /\ u.passwordHash = hashPassword("secret1", 1)

\* the Date a date text of a request stands for, written out
ParsedDate(text) ==
    CASE text = "2026-02-17" -> [kind |-> "Date", iso |-> "2026-02-17T00:00:00.000Z"]
      [] text = "2026-03-01" -> [kind |-> "Date", iso |-> "2026-03-01T00:00:00.000Z"]

\* C24: PUT /orders/{id} merges the body into the row: a 200 leaves the row
\* with every field of the body written as sent (the three dates parsed) and
\* every other field as stored, and leaves every other order alone; any other
\* answer leaves the store as it was; a body whose dates parse, sent for a
\* stored order, is answered 200.
C24_PartialMerge ==
    [][ (ApiStep /\ req'.op = "PUT /orders/{id}") =>
          /\ resp'.status # 200 => orders' = orders
          /\ resp'.status = 200 =>
                \E old \in orders :
                    /\ old.id = req'.id
                    /\ orders' = (orders \ {old}) \cup
                          { [f \in DOMAIN old |->
                                IF f \notin DOMAIN req'.body THEN old[f]
                                ELSE IF f \in DateFields THEN ParsedDate(req'.body[f])
                                ELSE req'.body[f]] }
          /\ ( /\ Caller(req') # Null
               /\ \E o \in orders : o.id = req'.id
               /\ \A f \in DateFields \cap DOMAIN req'.body :
                     req'.body[f] \in {"2026-02-17", "2026-03-01"} ) => resp'.status = 200
      ]_vars

\* C24 witness: of two stored orders one got a start date, a delivery date and
\* a total in one update and kept its status, and the other is as created.
C24_Witness ==
    /\ req.op = "PUT /orders/{id}"
    /\ resp.status = 200
    /\ DOMAIN req.body = {"startDate", "deliveryDate", "totalQuantity"}
    /\ Cardinality(orders) = 2
    /\ \E o \in orders : /\ o.id = req.id
                         /\ o.startDate = ParsedDate("2026-03-01")
                         /\ o.deliveryDate = ParsedDate("2026-02-17")
                         /\ o.totalQuantity = 0
                         /\ o.status = "Packing"
    /\ \E o \in orders : /\ o.id # req.id
                         /\ o.totalQuantity = 5
                         /\ o.status = "Order Received"

\* C25: also when the handlers overlap, a registration with the email of a
\* stored user and a creation with the order number of a stored order are
\* answered 400 and store nothing.
C25_DuplicateKeyIs400 ==
    [][ ( /\ ApiStep
          /\ \/ /\ req'.op = "POST /auth/register"
                /\ registerSchemaOk(req'.body)
                /\ \E u \in users : u.email = req'.body.email
             \/ /\ req'.op = "POST /orders"
                /\ Caller(req') # Null
                /\ \E o \in orders : o.orderNumber = req'.body.orderNumber ) =>
          /\ resp'.status = 400
          /\ users' = users
          /\ orders' = orders
      ]_vars

\* the items of the form whose product name is not blank, counted directly
NamedItemCount ==
    Cardinality({ i \in 1..Len(items) : items[i].productName \notin {"", " ", "  "} })

\* C26: saving a new sheet with k named items puts k orders in front of the
\* order list, each with the sheet's order number, and keeps the listed
\* orders in place behind them.
C26_NewSheetAddsEveryItem ==
    [][ ( /\ activeView = "Sales"
          /\ editingOrderNumber = <<>>
          /\ appOrders' # appOrders ) =>
          /\ Len(appOrders') = Len(appOrders) + NamedItemCount
          /\ \A i \in 1..NamedItemCount : appOrders'[i].orderNumber = headerData.orderNumber
          /\ \A i \in 1..Len(appOrders) : appOrders'[NamedItemCount + i] = appOrders[i]
      ]_vars

\* C27: in edit mode every order finalizeSheet saves has the id of the item,
\* and so of the order, it was loaded from, and replaces that order in the list.
C27_EditedSheetKeepsIds ==
    (editingOrderNumber # <<>> /\ ~SheetRejected) =>
        \A i \in 1..Len(FinalOrders) :
            /\ FinalOrders[i].id = ValidItems[i].id
            /\ \E j \in 1..Len(OrdersAfterSave) : OrdersAfterSave[j].id = FinalOrders[i].id

C29_ActiveTabInRange ==
    /\ [](Len(items) >= 1 /\ activeTab \in 0..(Len(items) - 1))
    /\ [][ (Len(items) = 1 /\ \E index \in 0..(MaxItems - 1) : removeItemTab(index)) =>
              UNCHANGED <<items, activeTab>> ]_vars

\* C29 witness: a second tab was added and is the active one, the last index
\* in range.
C29_Witness ==
    /\ Len(items) = 2
    /\ activeTab = 1
    /\ items[2].id # items[1].id

\* the alerts in a list of notifications
AlertCount(list) ==
    Cardinality({ i \in 1..Len(list) : list[i].title = "ALTERATION ALERT" })

\* C30: an ALTERATION ALERT is added only by a step that logs an outcome of
\* Alteration Required on an order, and that step adds exactly one.
C30_AlertOnlyWhenAlterationLogged ==
    [][ AlertCount(appNotifications') > AlertCount(appNotifications) =>
          /\ AlertCount(appNotifications') = AlertCount(appNotifications) + 1
          /\ \E i \in 1..Len(appOrders) :
                /\ appOrders'[i].postDelivery # appOrders[i].postDelivery
                /\ appOrders'[i].postDelivery # Null
                /\ appOrders'[i].postDelivery.status = "Alteration Required"
      ]_vars

====
